---- MODULE Spec2Model ----
(***************************************************************************)
(* A model of libtoml's parser (src/src/toml.c): the byte cursor, the      *)
(* document model (strings, tables, arrays, values held in a heap of       *)
(* allocations), the scanners, the key-value parser, the table-header      *)
(* parser with its path resolver, and the top-level driver.                *)
(*                                                                         *)
(* Bytes are ASCII codes.  Pointers are indices into the heap, a sequence  *)
(* that holds every allocation ever made together with the number of times *)
(* it was freed; NULL is 0.  The line/column counters of the cursor only   *)
(* feed the text of error messages and are left out.                       *)
(***************************************************************************)
EXTENDS Integers, Sequences, FiniteSets, TLC

VARIABLES
    entry,      \* the loader called: toml_load_nstr ("nstr") or toml_load_str
    buf,        \* the caller's text: str[0 .. len-1] for toml_load_nstr, the
                \* bytes before the terminating NUL for toml_load_str
    len,        \* the length given to the parser: TomlParser.end - begin
    after,      \* the bytes found in memory behind the text, which the
                \* parser reads too
    ptr,        \* TomlParser.ptr, as a 1-based index; End is TomlParser.end
    heap,       \* every allocation made so far
    err,        \* g_err.code
    pc,         \* where the control is
    root,       \* toml_parse: table
    key_path,   \* toml_parse_table: key_path
    is_array,   \* toml_parse_table: is_array
    kv_table,   \* toml_parse_key_value: table
    kv_from,    \* the caller of the running toml_parse_key_value
    ret,        \* what toml_load_nstr returned
    asserted,   \* an assert() has failed and was compiled out (NDEBUG)
    ub,         \* undefined behaviour has been executed
    spin,       \* consecutive loop iterations that left the cursor in place
    calls,      \* the calls the caller made on the returned table
    it,         \* the caller's TomlTableIter
    visited,    \* the entries the caller got from the iterator, in order
    scanned     \* what toml_parse_value returned when called on its own

vars == <<entry, buf, len, after, ptr, heap, err, pc, root, key_path, is_array,
          kv_table, kv_from, ret, asserted, ub, spin, calls, it, visited,
          scanned>>

----------------------------------------------------------------------------
(* Bounds of the model. *)

MaxLines == 3       \* an input is made of at most this many pieces
MaxSpin == 2        \* iterations of a loop that does not advance the cursor
MaxCalls == 2       \* calls of the caller on the returned table
MaxHeaders == 2     \* an input of header lines is made of at most this many

----------------------------------------------------------------------------
(* Program constants. *)

NULL == 0

TOML_OK == 0
TOML_ERR_SYNTAX == 4
TOML_ERR_UNICODE == 5

TOML_TABLE == 0
TOML_ARRAY == 1
TOML_STRING == 2
TOML_INTEGER == 3
TOML_FLOAT == 4
TOML_DATETIME == 5
TOML_BOOLEAN == 6

MinCapacity == 8

(* A pointer that is neither NULL nor the address of an allocation: what   *)
(* reading the pointer member of the TomlValue union gives for a scalar.   *)
WILD == -1

----------------------------------------------------------------------------
(* Bytes. *)

Ascii ==
    "\t" :> 9 @@ "\n" :> 10 @@ "\r" :> 13 @@ " " :> 32 @@ "\"" :> 34 @@
    "#" :> 35 @@ "'" :> 39 @@ "+" :> 43 @@ "," :> 44 @@ "-" :> 45 @@
    "." :> 46 @@ "0" :> 48 @@ "1" :> 49 @@ "2" :> 50 @@ "3" :> 51 @@
    "4" :> 52 @@ "5" :> 53 @@ "6" :> 54 @@ "7" :> 55 @@ "8" :> 56 @@
    "9" :> 57 @@ "=" :> 61 @@ "@" :> 64 @@
    "A" :> 65 @@ "B" :> 66 @@ "E" :> 69 @@ "F" :> 70 @@ "U" :> 85 @@
    "[" :> 91 @@ "\\" :> 92 @@ "]" :> 93 @@ "_" :> 95 @@
    "a" :> 97 @@ "b" :> 98 @@ "c" :> 99 @@ "d" :> 100 @@ "e" :> 101 @@
    "f" :> 102 @@ "i" :> 105 @@ "l" :> 108 @@ "n" :> 110 @@ "o" :> 111 @@
    "r" :> 114 @@ "s" :> 115 @@ "t" :> 116 @@ "u" :> 117 @@ "x" :> 120 @@
    "y" :> 121 @@ "{" :> 123 @@ "}" :> 125

Ch(c) == Ascii[c]

Str(s) == [i \in 1..Len(s) |-> Ascii[s[i]]]

NUL == 0

isdigit(c) == c \in 48..57
isupper(c) == c \in 65..90
islower(c) == c \in 97..122
isalnum(c) == isdigit(c) \/ isupper(c) \/ islower(c)
isxdigit(c) == isdigit(c) \/ c \in 65..70 \/ c \in 97..102
isspace(c) == c \in {32, 9, 10, 11, 12, 13}

----------------------------------------------------------------------------
(* The byte cursor.  A step of the parser is computed on a record that     *)
(* carries the cursor, the heap and the error code through the calls it    *)
(* makes:  res is the value the last call returned, rc and flow are used   *)
(* by the steps of the key-value and header loops, af says that an         *)
(* assert() failed, fault that an invalid pointer was dereferenced, ub     *)
(* that undefined behaviour was executed.                                  *)

End == len + 1

(* The byte at str[i - 1]: behind the text of toml_load_str lies its NUL    *)
(* and then whatever the memory holds.                                     *)
Byte(i) ==
    IF i <= Len(buf) THEN buf[i]
    ELSE IF entry = "str" THEN (IF i = Len(buf) + 1 THEN NUL ELSE after)
    ELSE IF i = Len(buf) + 1 THEN after ELSE NUL

St(p, h, e) ==
    [ptr |-> p, heap |-> h, err |-> e, af |-> FALSE, fault |-> FALSE,
     ub |-> FALSE, res |-> NULL, rc |-> 0, flow |-> "next"]

Fault(st) == [st EXCEPT !.fault = TRUE, !.res = NULL]

(* With(v, Body) is Body(v): it names an intermediate result. *)
With(v, Body(_)) == Body(v)

toml_move_next(st) == IF st.ptr < End THEN [st EXCEPT !.ptr = @ + 1] ELSE st

toml_next_n(st, n) ==
    [st EXCEPT !.ptr = IF st.ptr + n <= End THEN st.ptr + n ELSE End]

(* toml_err_set asserts that no error is recorded yet. *)
toml_err_set(st, code) ==
    [st EXCEPT !.err = code, !.af = @ \/ (st.err # TOML_OK)]

(* The calls that give toml_err_set a "%s:%d:%d" format and no arguments:  *)
(* vsnprintf reads three arguments that were never passed.                 *)
toml_err_set_noargs(st, code) == [toml_err_set(st, code) EXCEPT !.ub = TRUE]

----------------------------------------------------------------------------
(* The document model. *)

Obj(k) ==
    [kind |-> k, bytes |-> <<>>, cap |-> 0, keys |-> <<>>, vals |-> <<>>,
     type |-> 0, pl |-> 0, frees |-> 0]

IsObj(h, p, k) == p \in 1..Len(h) /\ h[p].kind = k

Alloc(st, o) == [st EXCEPT !.heap = Append(@, o), !.res = Len(st.heap) + 1]

RECURSIVE Pow2From(_, _)
Pow2From(p, x) == IF p >= x THEN p ELSE Pow2From(2 * p, x)

toml_roundup_pow_of_two_size_t(x) == IF x = 0 THEN 0 ELSE Pow2From(1, x)

toml_string_new(st) == Alloc(st, Obj("string"))

toml_string_expand_if_necessary(s, len_to_add) ==
    IF Len(s.bytes) + len_to_add + 1 > s.cap
    THEN LET new_capacity ==
                 toml_roundup_pow_of_two_size_t(Len(s.bytes) + len_to_add + 1)
         IN  IF new_capacity >= MinCapacity THEN new_capacity ELSE MinCapacity
    ELSE s.cap

toml_string_append_char(st, s, ch) ==
    IF ~IsObj(st.heap, s, "string") THEN Fault(st)
    ELSE [st EXCEPT
            !.heap[s].cap = toml_string_expand_if_necessary(st.heap[s], 1),
            !.heap[s].bytes = Append(@, ch),
            !.ub = @ \/ st.heap[s].frees > 0]

toml_string_append_nstr(st, s, bytes) ==
    IF ~IsObj(st.heap, s, "string") THEN Fault(st)
    ELSE [st EXCEPT
            !.heap[s].cap =
                toml_string_expand_if_necessary(st.heap[s], Len(bytes)),
            !.heap[s].bytes = @ \o bytes,
            !.ub = @ \/ st.heap[s].frees > 0]

toml_string_from_nstr(st, bytes) ==
    LET s1 == toml_string_new(st)
    IN  [toml_string_append_nstr(s1, s1.res, bytes) EXCEPT !.res = s1.res]

toml_string_clone(st, s) ==
    IF ~IsObj(st.heap, s, "string") THEN Fault(st)
    ELSE [toml_string_from_nstr(st, st.heap[s].bytes)
            EXCEPT !.ub = @ \/ st.heap[s].frees > 0]

toml_string_equals(h, self, other) ==
    \/ self = other
    \/ h[self].bytes = h[other].bytes

toml_table_new(st) == Alloc(st, Obj("table"))

toml_array_new(st) == Alloc(st, Obj("array"))

toml_table_expand_if_necessary(t) ==
    IF Len(t.keys) + 1 > t.cap
    THEN (IF t.cap > 0 THEN t.cap * 2 ELSE MinCapacity)
    ELSE t.cap

(* The entries of table t that compare equal to key; the loops of          *)
(* toml_table_set_by_string and toml_table_get_by_string keep the last.    *)
Matches(h, t, key) ==
    {i \in 1..Len(h[t].keys) : toml_string_equals(h, h[t].keys[i], key)}

LastOf(I) == IF I = {} THEN 0 ELSE CHOOSE i \in I : \A j \in I : j <= i

(* Comparing against the keys of t dereferences key and every key of t.    *)
Comparable(h, t, key) ==
    \/ Len(h[t].keys) = 0
    \/ /\ IsObj(h, key, "string")
       /\ \A i \in 1..Len(h[t].keys) : IsObj(h, h[t].keys[i], "string")

StaleCompare(h, t, key) ==
    /\ Len(h[t].keys) > 0
    /\ \/ h[key].frees > 0
       \/ \E i \in 1..Len(h[t].keys) : h[h[t].keys[i]].frees > 0

(* The entry is appended whether or not the key is present. *)
toml_table_set_by_string_append(st, self, key, value) ==
    IF ~IsObj(st.heap, self, "table") THEN Fault(st)
    ELSE IF ~Comparable(st.heap, self, key) THEN Fault(st)
    ELSE [st EXCEPT
            !.heap[self].cap = toml_table_expand_if_necessary(st.heap[self]),
            !.heap[self].keys = Append(@, key),
            !.heap[self].vals = Append(@, value)]

toml_table_set_by_string(st, self, key, value) ==
    IF ~IsObj(st.heap, self, "table") THEN Fault(st)
    ELSE IF ~Comparable(st.heap, self, key) THEN Fault(st)
    ELSE LET h == st.heap
             slot == LastOf(Matches(h, self, key))
             stale == h[self].frees > 0 \/ StaleCompare(h, self, key)
         IN  IF slot = 0
             THEN [st EXCEPT
                     !.heap[self].cap = toml_table_expand_if_necessary(h[self]),
                     !.heap[self].keys = Append(@, key),
                     !.heap[self].vals = Append(@, value),
                     !.ub = @ \/ stale]
             ELSE [st EXCEPT
                     !.heap[self].vals[slot] = value,
                     !.ub = @ \/ stale]

toml_table_setn(st, self, key, value) ==
    With(toml_string_from_nstr(st, key), LAMBDA str :
        toml_table_set_by_string(str, self, str.res, value))

toml_table_get_by_string(st, self, key) ==
    IF ~IsObj(st.heap, self, "table") THEN Fault(st)
    ELSE IF ~Comparable(st.heap, self, key) THEN Fault(st)
    ELSE LET h == st.heap
             i == LastOf(Matches(h, self, key))
         IN  [st EXCEPT
                !.res = IF i = 0 THEN NULL ELSE h[self].vals[i],
                !.ub = @ \/ h[self].frees > 0 \/ StaleCompare(h, self, key)]

(* The iterator of a table: _keyval is the address of _keyvals[keyval - 1], *)
(* NULL when keyval is; the _keyvals of a table that never held an entry   *)
(* is NULL.                                                                *)
NoIter == [table |-> NULL, keyval |-> NULL]

toml_table_iter_new(h, table) ==
    [table |-> table, keyval |-> IF h[table].cap = 0 THEN NULL ELSE 1]

toml_table_iter_get(self) == self.keyval

toml_table_iter_has_next(self) == self.keyval # NULL

(* What the address keyval of table t holds: an entry, or what lies beyond *)
(* the entries.                                                            *)
EntryAt(h, t, keyval) ==
    IF keyval \in 1..Len(h[t].keys)
    THEN <<h[t].keys[keyval], h[t].vals[keyval]>>
    ELSE <<WILD, WILD>>

(* The end of the entries is tested one entry late. *)
toml_table_iter_next_late(h, self) ==
    IF self.keyval = NULL THEN [self EXCEPT !.keyval = WILD]
    ELSE LET k == IF self.keyval - 1 < Len(h[self.table].keys)
                  THEN self.keyval + 1 ELSE self.keyval
         IN  [self EXCEPT
                !.keyval = IF k - 1 > Len(h[self.table].keys) THEN NULL ELSE k]

(* A NULL _keyval compares below the end of the entries and is incremented *)
(* into an address that is no entry.                                       *)
toml_table_iter_next(h, self) ==
    IF self.keyval = NULL THEN [self EXCEPT !.keyval = WILD]
    ELSE LET k == IF self.keyval - 1 < Len(h[self.table].keys)
                  THEN self.keyval + 1 ELSE self.keyval
         IN  [self EXCEPT
                !.keyval = IF k - 1 >= Len(h[self.table].keys) THEN NULL ELSE k]

toml_array_expand_if_necessary(a) ==
    IF Len(a.vals) + 1 > a.cap
    THEN (IF a.cap > 0 THEN a.cap * 2 ELSE MinCapacity)
    ELSE a.cap

(* The value is put in front of the elements. *)
toml_array_append_front(st, self, value) ==
    IF ~IsObj(st.heap, self, "array") THEN Fault(st)
    ELSE [st EXCEPT
            !.heap[self].cap = toml_array_expand_if_necessary(st.heap[self]),
            !.heap[self].vals = <<value>> \o @,
            !.ub = @ \/ st.heap[self].frees > 0]

toml_array_append(st, self, value) ==
    IF ~IsObj(st.heap, self, "array") THEN Fault(st)
    ELSE [st EXCEPT
            !.heap[self].cap = toml_array_expand_if_necessary(st.heap[self]),
            !.heap[self].vals = Append(@, value),
            !.ub = @ \/ st.heap[self].frees > 0]

(* A TomlValue of the given type whose union holds pl: the address of the  *)
(* payload for a table, an array or a string, the number for a scalar.     *)
toml_value_new(st, type, pl) ==
    Alloc(st, [Obj("value") EXCEPT !.type = type, !.pl = pl])

(* The type of the value is set to that of a string. *)
toml_value_new_table_mistyped(st) ==
    LET v == toml_value_new(st, TOML_STRING, NULL)
        t == toml_table_new(v)
    IN  [t EXCEPT !.heap[v.res].pl = t.res, !.res = v.res]

toml_value_new_table(st) ==
    LET v == toml_value_new(st, TOML_TABLE, NULL)
        t == toml_table_new(v)
    IN  [t EXCEPT !.heap[v.res].pl = t.res, !.res = v.res]

toml_value_new_array(st) ==
    LET v == toml_value_new(st, TOML_ARRAY, NULL)
        a == toml_array_new(v)
    IN  [a EXCEPT !.heap[v.res].pl = a.res, !.res = v.res]

(* value.table read from a TomlValue, whatever its type: the members of    *)
(* the union share their storage.                                          *)
UnionPointer(v) ==
    IF v.type \in {TOML_TABLE, TOML_ARRAY, TOML_STRING} THEN v.pl
    ELSE IF v.type = TOML_BOOLEAN THEN WILD
    ELSE IF v.type = TOML_DATETIME THEN NULL
    ELSE IF v.pl = 0 THEN NULL ELSE WILD

----------------------------------------------------------------------------
(* Releasing.  free() is counted per allocation. *)

Release(h, p) == [h EXCEPT ![p].frees = @ + 1]

toml_string_free(h, self) ==
    IF self \in 1..Len(h) THEN Release(h, self) ELSE h

RECURSIVE toml_value_free(_, _)
RECURSIVE toml_table_free(_, _)
RECURSIVE toml_array_free(_, _)
RECURSIVE FreeKeyVals(_, _, _)
RECURSIVE FreeElements(_, _, _)

FreeKeyVals(h, t, i) ==
    IF i > Len(h[t].keys) THEN h
    ELSE FreeKeyVals(
            toml_value_free(toml_string_free(h, h[t].keys[i]), h[t].vals[i]),
            t, i + 1)

FreeElements(h, a, i) ==
    IF i > Len(h[a].vals) THEN h
    ELSE FreeElements(toml_value_free(h, h[a].vals[i]), a, i + 1)

toml_table_free(h, self) ==
    IF self \in 1..Len(h) THEN Release(FreeKeyVals(h, self, 1), self) ELSE h

toml_array_free(h, self) ==
    IF self \in 1..Len(h) THEN Release(FreeElements(h, self, 1), self) ELSE h

toml_value_free(h, self) ==
    IF self \in 1..Len(h)
    THEN LET v == h[self]
             h1 == IF v.type = TOML_STRING THEN toml_string_free(h, v.pl)
                   ELSE IF v.type = TOML_TABLE THEN toml_table_free(h, v.pl)
                   ELSE IF v.type = TOML_ARRAY THEN toml_array_free(h, v.pl)
                   ELSE h
         IN  Release(h1, self)
    ELSE h

Freeing(st, h) == [st EXCEPT !.heap = h]

----------------------------------------------------------------------------
(* The key and string scanners. *)

IsBareKeyChar(c) == isalnum(c) \/ c = Ch("_") \/ c = Ch("-")

RECURSIVE BareKeyEnd(_)
BareKeyEnd(p) ==
    IF p < End /\ IsBareKeyChar(Byte(p)) THEN BareKeyEnd(p + 1) ELSE p

toml_parse_bare_key(st) ==
    LET e == BareKeyEnd(st.ptr)
    IN  toml_string_from_nstr([st EXCEPT !.ptr = e], SubSeq(buf, st.ptr, e - 1))

toml_hex_char_to_int(ch) ==
    IF isdigit(ch) THEN ch - 48
    ELSE IF islower(ch) THEN ch - 97 + 10
    ELSE IF isupper(ch) THEN ch - 65 + 10
    ELSE 0

(* The n hex digits at the cursor, read as scalar = scalar * 16 + digit on *)
(* an unsigned int.  The scalar is kept as its two 16-bit halves, hi and   *)
(* lo; ok = FALSE when a byte that is no hex digit stopped the loop.       *)
RECURSIVE ScalarLoop(_, _, _, _)
ScalarLoop(st, i, hi, lo) ==
    IF i = 0 THEN [st |-> st, hi |-> hi, lo |-> lo, ok |-> TRUE]
    ELSE IF isxdigit(Byte(st.ptr))
    THEN ScalarLoop(toml_move_next(st), i - 1,
                    ((hi % 4096) * 16) + (lo \div 4096),
                    ((lo % 4096) * 16) + toml_hex_char_to_int(Byte(st.ptr)))
    ELSE [st |-> st, hi |-> hi, lo |-> lo, ok |-> FALSE]

RECURSIVE AppendChars(_, _, _)
AppendChars(st, s, bytes) ==
    IF bytes = <<>> THEN st
    ELSE AppendChars(toml_string_append_char(st, s, Head(bytes)), s, Tail(bytes))

Utf8_wide(scalar) ==
    IF scalar <= 127 THEN <<scalar>>
    ELSE IF scalar <= 4095
    THEN <<192 + (scalar \div 64), 128 + (scalar % 64)>>
    ELSE IF scalar <= 65535
    THEN <<224 + (scalar \div 4096), 128 + ((scalar \div 64) % 64),
           128 + (scalar % 64)>>
    ELSE IF scalar <= 2097151
    THEN <<240 + (scalar \div 262144), 128 + ((scalar \div 4096) % 64),
           128 + ((scalar \div 64) % 64), 128 + (scalar % 64)>>
    ELSE IF scalar <= 67108863
    THEN <<248 + (scalar \div 16777216), 128 + ((scalar \div 262144) % 64),
           128 + ((scalar \div 4096) % 64), 128 + ((scalar \div 64) % 64),
           128 + (scalar % 64)>>
    ELSE <<252 + (scalar \div 1073741824),
           128 + ((scalar \div 16777216) % 64),
           128 + ((scalar \div 262144) % 64), 128 + ((scalar \div 4096) % 64),
           128 + ((scalar \div 64) % 64), 128 + (scalar % 64)>>

(* The bytes toml_encode_unicode_scalar appends for a scalar of at most    *)
(* 0x7fffffff.                                                             *)
Utf8(scalar) ==
    IF scalar <= 127 THEN <<scalar>>
    ELSE IF scalar <= 2047
    THEN <<192 + (scalar \div 64), 128 + (scalar % 64)>>
    ELSE IF scalar <= 65535
    THEN <<224 + (scalar \div 4096), 128 + ((scalar \div 64) % 64),
           128 + (scalar % 64)>>
    ELSE IF scalar <= 2097151
    THEN <<240 + (scalar \div 262144), 128 + ((scalar \div 4096) % 64),
           128 + ((scalar \div 64) % 64), 128 + (scalar % 64)>>
    ELSE IF scalar <= 67108863
    THEN <<248 + (scalar \div 16777216), 128 + ((scalar \div 262144) % 64),
           128 + ((scalar \div 4096) % 64), 128 + ((scalar \div 64) % 64),
           128 + (scalar % 64)>>
    ELSE <<252 + (scalar \div 1073741824),
           128 + ((scalar \div 16777216) % 64),
           128 + ((scalar \div 262144) % 64), 128 + ((scalar \div 4096) % 64),
           128 + ((scalar \div 64) % 64), 128 + (scalar % 64)>>

UnicodeError(st) ==
    [toml_err_set(st, TOML_ERR_UNICODE) EXCEPT !.rc = TOML_ERR_UNICODE]

(* The check of the scalar read and its encoding. *)
EncodeScalar(r, result) ==
    IF ~r.ok THEN UnicodeError(r.st)
    ELSE IF r.hi >= 32768 THEN UnicodeError(r.st)
    ELSE IF \/ (r.hi = 0 /\ r.lo >= 55296 /\ r.lo <= 57343)
            \/ (r.hi = 0 /\ r.lo >= 65534 /\ r.lo <= 65535)
    THEN UnicodeError(r.st)
    ELSE [AppendChars(r.st, result, Utf8((r.hi * 65536) + r.lo))
            EXCEPT !.rc = 0]

(* rc is 0 or TOML_ERR_UNICODE. *)
toml_encode_unicode_scalar(st, result, n) ==
    IF st.ptr + n > End THEN UnicodeError(st)
    ELSE EncodeScalar(ScalarLoop(st, n, 0, 0), result)

(* The escapes that stand for one byte. *)
Escape ==
    Ch("\"") :> Ch("\"") @@ Ch("b") :> 8 @@ Ch("t") :> 9 @@ Ch("n") :> 10 @@
    Ch("f") :> 12 @@ Ch("r") :> 13 @@ Ch("\\") :> Ch("\\")

StringFreed(st, s) == [st EXCEPT !.heap = toml_string_free(st.heap, s)]

Returned(st, v) == [st EXCEPT !.flow = "ret", !.res = v]

(* The loop of toml_parse_basic_string; flow = "ret" when it returned NULL *)
(* from inside the loop.  An invalid escape records its error and frees    *)
(* the result, and the loop goes on with the freed string.                 *)
RECURSIVE BasicStringLoop(_, _)
BasicStringLoop(st, result) ==
    IF \/ st.fault
       \/ ~(st.ptr < End /\ Byte(st.ptr) # Ch("\"") /\ Byte(st.ptr) # Ch("\n"))
    THEN st
    ELSE LET ch1 == Byte(st.ptr)
             s1 == toml_move_next(st)
             ch2 == Byte(st.ptr + 1)
         IN  IF ch1 # Ch("\\")
             THEN BasicStringLoop(
                    toml_move_next(toml_string_append_char(st, result, ch1)),
                    result)
             ELSE IF ch2 \in DOMAIN Escape
             THEN BasicStringLoop(
                    toml_move_next(
                        toml_string_append_char(s1, result, Escape[ch2])),
                    result)
             ELSE IF ch2 = Ch("u") \/ ch2 = Ch("U")
             THEN With(toml_encode_unicode_scalar(
                         toml_move_next(s1), result,
                         IF ch2 = Ch("u") THEN 4 ELSE 8),
                       LAMBDA s2 :
                         IF s2.rc # 0
                         THEN Returned(StringFreed(s2, result), NULL)
                         ELSE BasicStringLoop(s2, result))
             ELSE BasicStringLoop(
                    StringFreed(toml_err_set_noargs(s1, TOML_ERR_SYNTAX), result),
                    result)

(* An unterminated string records its error and frees the result, and the  *)
(* freed string is returned all the same.                                  *)
BasicStringEnd(s1, result) ==
    IF s1.fault \/ s1.flow = "ret" THEN [s1 EXCEPT !.flow = "next"]
    ELSE IF s1.ptr >= End \/ Byte(s1.ptr) # Ch("\"")
    THEN [toml_move_next(StringFreed(toml_err_set(s1, TOML_ERR_SYNTAX), result))
            EXCEPT !.res = result]
    ELSE [toml_move_next(s1) EXCEPT !.res = result]

toml_parse_basic_string(st) ==
    BasicStringEnd(
        BasicStringLoop([toml_string_new(st) EXCEPT !.flow = "next"],
                        Len(st.heap) + 1),
        Len(st.heap) + 1)

RECURSIVE LiteralStringLoop(_, _)
LiteralStringLoop(st, result) ==
    IF st.ptr < End /\ Byte(st.ptr) # Ch("'") /\ Byte(st.ptr) # Ch("\n")
    THEN LiteralStringLoop(
            toml_move_next(toml_string_append_char(st, result, Byte(st.ptr))),
            result)
    ELSE st

LiteralStringEnd(s1, result) ==
    IF s1.ptr >= End \/ Byte(s1.ptr) # Ch("'")
    THEN [StringFreed(toml_err_set(s1, TOML_ERR_SYNTAX), result)
            EXCEPT !.res = NULL]
    ELSE [toml_move_next(s1) EXCEPT !.res = result]

toml_parse_literal_string(st) ==
    LiteralStringEnd(LiteralStringLoop(toml_string_new(st), Len(st.heap) + 1),
                     Len(st.heap) + 1)

(* The TomlValue made of the string s.res, or NULL when there is none. *)
StringValue(s) ==
    IF s.res = NULL THEN s ELSE toml_value_new(s, TOML_STRING, s.res)

toml_parse_basic_string_value(st) == StringValue(toml_parse_basic_string(st))

toml_parse_literal_string_value(st) ==
    StringValue(toml_parse_literal_string(st))

(* strncmp(self->ptr, q q q, 3) == 0 *)
AtTriple(p, q) == Byte(p) = q /\ Byte(p + 1) = q /\ Byte(p + 2) = q

RECURSIVE SkipContinuation(_)
SkipContinuation(st) ==
    LET s1 == toml_move_next(st)
    IN  IF s1.ptr + 3 <= End /\ isspace(Byte(s1.ptr))
        THEN SkipContinuation(s1)
        ELSE s1

RECURSIVE MultiLineBasicLoop(_, _)
MultiLineBasicLoop(st, result) ==
    IF st.fault \/ ~(st.ptr + 3 <= End /\ ~AtTriple(st.ptr, Ch("\"")))
    THEN st
    ELSE LET ch1 == Byte(st.ptr)
             s1 == toml_move_next(st)
             ch2 == Byte(st.ptr + 1)
         IN  IF ch1 # Ch("\\")
             THEN MultiLineBasicLoop(
                    toml_move_next(toml_string_append_char(st, result, ch1)),
                    result)
             ELSE IF ch2 \in DOMAIN Escape
             THEN MultiLineBasicLoop(
                    toml_move_next(
                        toml_string_append_char(s1, result, Escape[ch2])),
                    result)
             ELSE IF ch2 = Ch("u") \/ ch2 = Ch("U")
             THEN With(toml_encode_unicode_scalar(
                         toml_move_next(s1), result,
                         IF ch2 = Ch("u") THEN 4 ELSE 8),
                       LAMBDA s2 :
                         IF s2.rc # 0
                         THEN Returned(StringFreed(s2, result), NULL)
                         ELSE MultiLineBasicLoop(s2, result))
             ELSE IF ch2 = Ch("\n")
             THEN MultiLineBasicLoop(SkipContinuation(s1), result)
             ELSE Returned(
                    StringFreed(toml_err_set(s1, TOML_ERR_SYNTAX), result), NULL)

SkipFirstNewline_kept(st) ==
    IF Byte(st.ptr) = Ch("\r") THEN toml_move_next(st) ELSE st

SkipFirstNewline(st) ==
    IF Byte(st.ptr) = Ch("\n") THEN toml_move_next(st) ELSE st

MultiLineBasicEnd(s1, result) ==
    IF s1.fault \/ s1.flow = "ret" THEN [s1 EXCEPT !.flow = "next"]
    ELSE IF s1.ptr + 3 > End \/ ~AtTriple(s1.ptr, Ch("\""))
    THEN [StringFreed(toml_err_set(s1, TOML_ERR_SYNTAX), result)
            EXCEPT !.res = NULL]
    ELSE toml_value_new(toml_next_n(s1, 3), TOML_STRING, result)

toml_parse_multi_line_basic_string(st) ==
    MultiLineBasicEnd(
        MultiLineBasicLoop(
            [SkipFirstNewline(toml_string_new(st)) EXCEPT !.flow = "next"],
            Len(st.heap) + 1),
        Len(st.heap) + 1)

RECURSIVE MultiLineLiteralLoop(_, _)
MultiLineLiteralLoop(st, result) ==
    IF st.ptr + 3 <= End /\ ~AtTriple(st.ptr, Ch("'"))
    THEN MultiLineLiteralLoop(
            toml_move_next(toml_string_append_char(st, result, Byte(st.ptr))),
            result)
    ELSE st

MultiLineLiteralEnd(s1, result) ==
    IF s1.ptr + 3 > End \/ ~AtTriple(s1.ptr, Ch("'"))
    THEN [StringFreed(toml_err_set(s1, TOML_ERR_SYNTAX), result)
            EXCEPT !.res = NULL]
    ELSE toml_value_new(toml_next_n(s1, 3), TOML_STRING, result)

toml_parse_multi_line_literal_string(st) ==
    MultiLineLiteralEnd(
        MultiLineLiteralLoop(SkipFirstNewline(toml_string_new(st)),
                             Len(st.heap) + 1),
        Len(st.heap) + 1)

----------------------------------------------------------------------------
(* The numeric token scanner. *)

(* strncmp(self->ptr, word, Len(word)) == 0 *)
Match(p, word) == \A k \in 1..Len(word) : Byte(p + k - 1) = Ch(word[k])

DigitVal(c) ==
    IF isdigit(c) THEN c - 48
    ELSE IF islower(c) THEN c - 97 + 10
    ELSE IF isupper(c) THEN c - 65 + 10
    ELSE 99

RECURSIVE DigitsEnd(_, _, _)
DigitsEnd(s, i, base) ==
    IF i <= Len(s) /\ DigitVal(s[i]) < base THEN DigitsEnd(s, i + 1, base)
    ELSE i

RECURSIVE DigitsValue(_, _, _)
DigitsValue(s, base, acc) ==
    IF s = <<>> THEN acc
    ELSE DigitsValue(Tail(s), base, (acc * base) + DigitVal(Head(s)))

(* strtoll(s, &end, base) of the C library: end is the number of bytes     *)
(* converted (0 when there is no digit), n the value.  The tokens of the   *)
(* model are short, so that n never leaves the range of a long long.       *)
strtoll(s, base) ==
    LET signed == Len(s) >= 1 /\ s[1] \in {Ch("+"), Ch("-")}
        i0 == IF signed THEN 2 ELSE 1
        prefix == /\ base = 16
                  /\ Len(s) >= i0 + 2
                  /\ s[i0] = Ch("0")
                  /\ s[i0 + 1] \in {Ch("x"), 88}
                  /\ DigitVal(s[i0 + 2]) < 16
        i1 == IF prefix THEN i0 + 2 ELSE i0
        e == DigitsEnd(s, i1, base)
        magnitude == DigitsValue(SubSeq(s, i1, e - 1), base, 0)
    IN  IF e = i1 THEN [end |-> 0, n |-> 0]
        ELSE [end |-> e - 1,
              n |-> IF signed /\ s[1] = Ch("-") THEN 0 - magnitude
                    ELSE magnitude]

ToLower(c) == IF isupper(c) THEN c + 32 ELSE c

MatchNoCase(s, i, word) ==
    /\ Len(s) >= i + Len(word) - 1
    /\ \A k \in 1..Len(word) : ToLower(s[i + k - 1]) = Ch(word[k])

(* The number of bytes strtod(s, &end) of the C library converts: a sign,  *)
(* then inf, infinity or nan, or a hexadecimal or a decimal number with    *)
(* its optional fraction and exponent.  i0 is where the number starts, i1  *)
(* where its digits start, intEnd and fracEnd where its integer part and   *)
(* its fraction end.                                                       *)
StrtodExponent(s, i0, hex, i1, intEnd, fracEnd) ==
    LET hasDot == intEnd <= Len(s) /\ s[intEnd] = Ch(".")
        digits == (intEnd - i1) + (IF hasDot THEN fracEnd - intEnd - 1 ELSE 0)
        hasMark == /\ fracEnd <= Len(s)
                   /\ ToLower(s[fracEnd]) = (IF hex THEN 112 ELSE Ch("e"))
        e0 == IF /\ fracEnd + 1 <= Len(s)
                 /\ s[fracEnd + 1] \in {Ch("+"), Ch("-")}
              THEN fracEnd + 2 ELSE fracEnd + 1
    IN  IF digits = 0 THEN (IF hex THEN i0 ELSE 0)
        ELSE IF hasMark /\ DigitsEnd(s, e0, 10) > e0
        THEN DigitsEnd(s, e0, 10) - 1
        ELSE fracEnd - 1

StrtodFraction(s, i0, hex, i1, intEnd) ==
    StrtodExponent(s, i0, hex, i1, intEnd,
                   IF intEnd <= Len(s) /\ s[intEnd] = Ch(".")
                   THEN DigitsEnd(s, intEnd + 1, IF hex THEN 16 ELSE 10)
                   ELSE intEnd)

StrtodNumber(s, i0, hex) ==
    StrtodFraction(s, i0, hex, IF hex THEN i0 + 2 ELSE i0,
                   DigitsEnd(s, IF hex THEN i0 + 2 ELSE i0,
                             IF hex THEN 16 ELSE 10))

strtod_end(s) ==
    LET i0 == IF Len(s) >= 1 /\ s[1] \in {Ch("+"), Ch("-")} THEN 2 ELSE 1
    IN  IF MatchNoCase(s, i0, <<"i", "n", "f", "i", "n", "i", "t", "y">>)
        THEN i0 + 7
        ELSE IF MatchNoCase(s, i0, <<"i", "n", "f">>) THEN i0 + 2
        ELSE IF MatchNoCase(s, i0, <<"n", "a", "n">>) THEN i0 + 2
        ELSE StrtodNumber(s, i0, /\ Len(s) >= i0 + 1
                                 /\ s[i0] = Ch("0")
                                 /\ ToLower(s[i0 + 1]) = Ch("x"))

toml_value_new_integer(st, n) == toml_value_new(st, TOML_INTEGER, n)

(* The double is kept as the text strtod converted. *)
toml_value_new_float(st, text) ==
    Alloc(st, [Obj("value") EXCEPT !.type = TOML_FLOAT, !.bytes = text])

toml_value_new_boolean(st, b) == toml_value_new(st, TOML_BOOLEAN, b)

toml_parse_datetime(st) == toml_value_new(st, TOML_DATETIME, 0)

(* The scanning loop: r holds the threaded record st, the type 'i', 'f' or *)
(* 't', last_char and has_exp.                                             *)
NumError(r, str) ==
    [r EXCEPT !.st = Returned(
        StringFreed(toml_err_set(r.st, TOML_ERR_SYNTAX), str), NULL)]

NumAdvance(r, st, type, has_exp) ==
    [st |-> toml_move_next(st), type |-> type, last_char |-> Byte(st.ptr),
     has_exp |-> has_exp]

RECURSIVE NumLoop(_, _, _)
NumLoop(r, str, base) ==
    IF r.st.fault \/ ~(r.st.ptr < End) THEN r
    ELSE LET c == Byte(r.st.ptr)
             appended == toml_string_append_char(r.st, str, c)
         IN  IF c = Ch("+") \/ c = Ch("-")
             THEN IF \/ r.last_char = 0
                     \/ (r.last_char \in {Ch("e"), Ch("E")} /\ ~r.has_exp)
                  THEN NumLoop(
                         NumAdvance(r, appended,
                                    IF r.last_char # 0 THEN "f" ELSE r.type,
                                    r.has_exp \/ r.last_char # 0),
                         str, base)
                  ELSE r
             ELSE IF isalnum(c)
             THEN NumLoop(
                    NumAdvance(r, appended,
                               IF c \in {Ch("e"), Ch("E")} /\ base = 10
                               THEN "f" ELSE r.type,
                               r.has_exp),
                    str, base)
             ELSE IF c = Ch(".")
             THEN IF r.type = "i"
                  THEN NumLoop(NumAdvance(r, appended, "f", r.has_exp),
                               str, base)
                  ELSE NumError(r, str)
             ELSE IF c = Ch("_")
             THEN IF r.type = "t" THEN NumError(r, str)
                  ELSE IF ~isalnum(r.last_char) THEN NumError(r, str)
                  ELSE NumLoop(NumAdvance(r, r.st, r.type, r.has_exp),
                               str, base)
             ELSE IF c = Ch("-")
             THEN NumLoop(NumAdvance(r, appended, "t", r.has_exp), str, base)
             ELSE r

(* The type the token starts with: 'f' for nan and inf, signed or not. *)
NumType(p) ==
    IF \/ /\ p + 3 <= End
          /\ (Match(p, <<"n", "a", "n">>) \/ Match(p, <<"i", "n", "f">>))
       \/ /\ p + 4 <= End
          /\ \/ Match(p, <<"+", "n", "a", "n">>)
             \/ Match(p, <<"-", "n", "a", "n">>)
             \/ Match(p, <<"+", "i", "n", "f">>)
             \/ Match(p, <<"-", "i", "n", "f">>)
    THEN "f" ELSE "i"

NumBase(p) ==
    IF p + 2 <= End /\ Match(p, <<"0", "x">>) THEN 16
    ELSE IF p + 2 <= End /\ Match(p, <<"0", "o">>) THEN 8
    ELSE IF p + 2 <= End /\ Match(p, <<"0", "b">>) THEN 2
    ELSE 10

(* The value v replaces the token text str, which is freed. *)
NumValue(v, str) == [StringFreed(v, str) EXCEPT !.res = v.res]

(* The conversion of the token the loop collected in str. *)
NumConvert(r, str, base) ==
    LET s2 == r.st
        text == r.st.heap[str].bytes
    IN  IF s2.fault \/ s2.flow = "ret" THEN [s2 EXCEPT !.flow = "next"]
        ELSE IF r.last_char = Ch("_")
        THEN [StringFreed(toml_err_set(s2, TOML_ERR_SYNTAX), str)
                EXCEPT !.res = NULL]
        ELSE IF r.type = "i"
        THEN IF text = <<>> THEN Fault(s2)
             ELSE IF strtoll(text, base).end < Len(text)
             THEN [StringFreed(toml_err_set(s2, TOML_ERR_SYNTAX), str)
                     EXCEPT !.res = NULL]
             ELSE NumValue(toml_value_new_integer(s2, strtoll(text, base).n),
                           str)
        ELSE IF r.type = "f"
        THEN IF strtod_end(text) < Len(text)
             THEN [StringFreed(toml_err_set_noargs(s2, TOML_ERR_SYNTAX), str)
                     EXCEPT !.res = NULL]
             ELSE NumValue(toml_value_new_float(s2, text), str)
        ELSE NumValue(toml_parse_datetime(s2), str)

toml_parse_int_or_float_or_time(st) ==
    NumConvert(
        NumLoop([st |-> IF NumBase(st.ptr) # 10
                        THEN toml_next_n(toml_string_new(st), 2)
                        ELSE toml_string_new(st),
                 type |-> NumType(st.ptr), last_char |-> 0,
                 has_exp |-> FALSE],
                Len(st.heap) + 1, NumBase(st.ptr)),
        Len(st.heap) + 1, NumBase(st.ptr))

(* The follower test of false reads the byte at offset 4, its own 'e'. *)
toml_parse_bool(st) ==
    LET p == st.ptr
    IN  IF /\ p + 4 <= End
           /\ Match(p, <<"t", "r", "u", "e">>)
           /\ \/ p + 4 = End
              \/ isspace(Byte(p + 4))
              \/ Byte(p + 4) \in {Ch(","), Ch("]"), Ch("}")}
        THEN toml_value_new_boolean(toml_next_n(st, 4), 1)
        ELSE IF /\ p + 5 <= End
                /\ Match(p, <<"f", "a", "l", "s", "e">>)
                /\ \/ p + 5 = End
                   \/ isspace(Byte(p + 5))
                   \/ Byte(p + 4) \in {Ch(","), Ch("]"), Ch("}")}
        THEN toml_value_new_boolean(toml_next_n(st, 5), 0)
        ELSE [st EXCEPT !.res = NULL]

----------------------------------------------------------------------------
(* The value parser, arrays and inline tables. *)

RECURSIVE SkipSpaces(_)
SkipSpaces(st) ==
    IF st.ptr < End /\ isspace(Byte(st.ptr)) THEN SkipSpaces(toml_move_next(st))
    ELSE st

RECURSIVE SkipBlanks(_)
SkipBlanks(st) ==
    IF st.ptr < End /\ Byte(st.ptr) \in {Ch(" "), Ch("\t")}
    THEN SkipBlanks(toml_move_next(st))
    ELSE st

(* do { toml_move_next(self); } while (self->ptr < self->end &&            *)
(*                                     *self->ptr != '\n');                *)
RECURSIVE SkipComment(_)
SkipComment(st) ==
    LET s1 == toml_move_next(st)
    IN  IF s1.ptr < End /\ Byte(s1.ptr) # Ch("\n") THEN SkipComment(s1) ELSE s1

RECURSIVE SkipSpacesAndComments(_)
SkipSpacesAndComments(st) ==
    IF ~(st.ptr < End) THEN st
    ELSE IF isspace(Byte(st.ptr))
    THEN SkipSpacesAndComments(SkipSpaces(st))
    ELSE IF Byte(st.ptr) = Ch("#")
    THEN SkipSpacesAndComments(SkipComment(st))
    ELSE st

(* The key at the cursor: a basic string, a literal string or a bare key. *)
ScanKey(st) ==
    IF Byte(st.ptr) = Ch("\"")
    THEN toml_parse_basic_string(toml_move_next(st))
    ELSE IF Byte(st.ptr) = Ch("'")
    THEN toml_parse_literal_string(toml_move_next(st))
    ELSE toml_parse_bare_key(st)

IsKeyChar(ch) == isalnum(ch) \/ ch = Ch("_") \/ ch = Ch("\"") \/ ch = Ch("'")

RECURSIVE toml_parse_value(_)
RECURSIVE ArrayLoop(_, _)
RECURSIVE InlineTableLoop(_, _)

ArraySeparator(st) ==
    IF st.ptr < End /\ Byte(st.ptr) = Ch(",") THEN toml_move_next(st) ELSE st

(* The element v.res just parsed: NULL jumps to the error label, which     *)
(* frees the array; anything else is appended.                             *)
ArrayElement(v, array) ==
    IF v.fault THEN v
    ELSE IF v.res = NULL
    THEN Returned([v EXCEPT !.heap = toml_value_free(v.heap, array)], NULL)
    ELSE ArrayLoop(
           ArraySeparator(SkipSpacesAndComments(
               toml_array_append(v, v.heap[array].pl, v.res))),
           array)

(* The loop of toml_parse_array on the TomlValue array; flow = "ret" when  *)
(* it left through its error label.  The loop also ends, and the array is  *)
(* returned, when the input ends before a ']'.                             *)
ArrayLoop(st, array) ==
    IF st.fault \/ ~(st.ptr < End) THEN st
    ELSE IF isspace(Byte(st.ptr)) THEN ArrayLoop(SkipSpaces(st), array)
    ELSE IF Byte(st.ptr) = Ch("#")
    THEN ArrayLoop(toml_move_next(SkipComment(st)), array)
    ELSE IF Byte(st.ptr) = Ch("]") THEN toml_move_next(st)
    ELSE ArrayElement(toml_parse_value(st), array)

ArrayEnd(s1, array) ==
    IF s1.fault \/ s1.flow = "ret" THEN [s1 EXCEPT !.flow = "next"]
    ELSE [s1 EXCEPT !.res = array]

toml_parse_array(st) ==
    ArrayEnd(ArrayLoop(toml_value_new_array(st), Len(st.heap) + 1),
             Len(st.heap) + 1)

(* error: toml_value_free(table); return NULL.  The key of the pair being  *)
(* parsed is not freed.                                                    *)
InlineFailed(st, table) ==
    Returned([st EXCEPT !.heap = toml_value_free(st.heap, table)], NULL)

(* After a pair was set: a ',' goes on, a '}' ends the table, anything     *)
(* else goes on as well.                                                   *)
InlineSeparator(st, table) ==
    IF st.fault THEN st
    ELSE IF Byte(st.ptr) = Ch(",")
    THEN InlineTableLoop(toml_move_next(st), table)
    ELSE IF Byte(st.ptr) = Ch("}") THEN toml_move_next(st)
    ELSE InlineTableLoop(st, table)

InlineValue(v, table, key) ==
    IF v.fault THEN v
    ELSE IF v.res = NULL THEN InlineFailed(v, table)
    ELSE InlineSeparator(
           SkipBlanks(toml_table_set_by_string(v, v.heap[table].pl, key, v.res)),
           table)

InlineAssign(st, table, key) ==
    IF st.ptr = End
    THEN InlineFailed(toml_err_set_noargs(st, TOML_ERR_SYNTAX), table)
    ELSE InlineValue(toml_parse_value(st), table, key)

InlineKey(st, table, key) ==
    IF st.ptr = End
    THEN InlineFailed(toml_err_set_noargs(st, TOML_ERR_SYNTAX), table)
    ELSE IF Byte(st.ptr) # Ch("=")
    THEN InlineFailed(toml_err_set(st, TOML_ERR_SYNTAX), table)
    ELSE InlineAssign(SkipBlanks(toml_move_next(st)), table, key)

(* One key = value pair of an inline table, from the key k.res. *)
InlinePair(k, table) ==
    IF k.fault THEN k
    ELSE IF k.res = NULL THEN InlineFailed(k, table)
    ELSE InlineKey(SkipBlanks(k), table, k.res)

(* A '}' met where a key is expected ends the loop and is left in the      *)
(* input.                                                                  *)
InlineEntry(st, table) ==
    IF IsKeyChar(Byte(st.ptr)) THEN InlinePair(ScanKey(st), table)
    ELSE IF Byte(st.ptr) = Ch("}") THEN st
    ELSE InlineFailed(toml_err_set(st, TOML_ERR_SYNTAX), table)

(* The loop of toml_parse_inline_table on the TomlValue table. *)
InlineTableLoop(st, table) ==
    IF st.fault \/ ~(st.ptr < End) THEN st
    ELSE InlineEntry(SkipBlanks(st), table)

InlineTableEnd(s1, table) ==
    IF s1.fault \/ s1.flow = "ret" THEN [s1 EXCEPT !.flow = "next"]
    ELSE [s1 EXCEPT !.res = table]

toml_parse_inline_table(st) ==
    InlineTableEnd(InlineTableLoop(toml_value_new_table(st), Len(st.heap) + 1),
                   Len(st.heap) + 1)

toml_parse_value(st) ==
    LET ch == Byte(st.ptr)
    IN  IF AtTriple(st.ptr, Ch("\""))
        THEN toml_parse_multi_line_basic_string(toml_next_n(st, 3))
        ELSE IF AtTriple(st.ptr, Ch("'"))
        THEN toml_parse_multi_line_literal_string(toml_next_n(st, 3))
        ELSE IF ch = Ch("\"")
        THEN toml_parse_basic_string_value(toml_move_next(st))
        ELSE IF ch = Ch("'")
        THEN toml_parse_literal_string_value(toml_move_next(st))
        ELSE IF \/ isdigit(ch)
                \/ ch \in {Ch("+"), Ch("-"), Ch("."), Ch("n"), Ch("i")}
        THEN toml_parse_int_or_float_or_time(st)
        ELSE IF ch = Ch("t") \/ ch = Ch("f") THEN toml_parse_bool(st)
        ELSE IF ch = Ch("[") THEN toml_parse_array(toml_move_next(st))
        ELSE IF ch = Ch("{") THEN toml_parse_inline_table(toml_move_next(st))
        ELSE [toml_err_set(st, TOML_ERR_SYNTAX) EXCEPT !.res = NULL]

----------------------------------------------------------------------------
(* The key-value parser: one iteration of the loop of                      *)
(* toml_parse_key_value.  flow = "loop" when the loop goes on, "ret" when  *)
(* the function returned rc.  A return with an error frees neither the key *)
(* nor anything else.                                                      *)

Return(st, rc) == [st EXCEPT !.flow = "ret", !.rc = rc]

Continue(st) == [st EXCEPT !.flow = "loop"]

SkipTrailingComment(st) ==
    IF Byte(st.ptr) = Ch("#") THEN SkipComment(st) ELSE st

SkipCR(st) == IF Byte(st.ptr) = Ch("\r") THEN toml_move_next(st) ELSE st

KeyValueNewline(st) ==
    IF Byte(st.ptr) = Ch("\n") THEN Continue(toml_move_next(st))
    ELSE Return(toml_err_set(st, TOML_ERR_SYNTAX), TOML_ERR_SYNTAX)

(* After the pair was set and the blanks behind it were skipped. *)
KeyValueEnd(st) ==
    IF st.fault THEN st
    ELSE IF st.ptr = End THEN Return(st, TOML_OK)
    ELSE KeyValueNewline(SkipCR(SkipTrailingComment(st)))

KeyValueSet(v, table, key) ==
    IF v.fault THEN v
    ELSE IF v.res = NULL THEN Return(v, v.err)
    ELSE KeyValueEnd(SkipBlanks(toml_table_set_by_string(v, table, key, v.res)))

KeyValueAssign(st, table, key) ==
    IF st.ptr = End
    THEN Return(toml_err_set_noargs(st, TOML_ERR_SYNTAX), TOML_ERR_SYNTAX)
    ELSE KeyValueSet(toml_parse_value(st), table, key)

KeyValueKey(st, table, key) ==
    IF st.ptr = End
    THEN Return(toml_err_set_noargs(st, TOML_ERR_SYNTAX), TOML_ERR_SYNTAX)
    ELSE IF Byte(st.ptr) # Ch("=")
    THEN Return(toml_err_set(st, TOML_ERR_SYNTAX), TOML_ERR_SYNTAX)
    ELSE KeyValueAssign(SkipBlanks(toml_move_next(st)), table, key)

(* From the key k.res to the end of the line. *)
KeyValuePair(k, table) ==
    IF k.fault THEN k
    ELSE IF k.res = NULL THEN Return(k, k.err)
    ELSE KeyValueKey(SkipBlanks(k), table, k.res)

KeyValueLine(st, table) ==
    IF st.ptr = End THEN Return(st, TOML_OK)
    ELSE IF IsKeyChar(Byte(st.ptr)) THEN KeyValuePair(ScanKey(st), table)
    ELSE IF Byte(st.ptr) = Ch("[") THEN Return(st, TOML_OK)
    ELSE IF Byte(st.ptr) = Ch("#")
    THEN Continue(toml_move_next(SkipComment(st)))
    ELSE Return(toml_err_set(st, TOML_ERR_SYNTAX), TOML_ERR_SYNTAX)

toml_parse_key_value(st, table) ==
    IF ~(st.ptr < End) THEN Return(st, TOML_OK)
    ELSE KeyValueLine(SkipSpaces(st), table)

----------------------------------------------------------------------------
(* The path resolver.  A segment is the string of an element of key_path;  *)
(* every operator returns the table reached in res.  Reading a table, or   *)
(* the last element of an array, through a pointer that is not the address *)
(* of one is an invalid access.                                            *)

Part(h, path, i) == h[h[path].vals[i]].pl

(* real_table = new_table->value.table *)
WalkInto(st, new_table) ==
    IF st.fault THEN st ELSE [st EXCEPT !.res = st.heap[new_table].pl]

(* The absent segment: a new empty table inserted under a copy of it. *)
WalkCreate(st, real_table, part) ==
    With(toml_value_new_table(st), LAMBDA new_table :
    With(toml_string_clone(new_table, part), LAMBDA part_copy :
        IF part_copy.fault THEN part_copy
        ELSE WalkInto(
               toml_table_set_by_string(part_copy, real_table, part_copy.res,
                                        new_table.res),
               new_table.res)))

(* The loop over all segments but the last of an array-of-tables header:   *)
(* what is found is followed as a table whatever its type.                 *)
RECURSIVE WalkArrayPrefix(_, _, _, _)

ArrayPrefixCreated(c, path, i) == WalkArrayPrefix(c, c.res, path, i + 1)

ArrayPrefixFound(t, real_table, path, i) ==
    IF t.fault THEN t
    ELSE IF t.res = NULL
    THEN ArrayPrefixCreated(WalkCreate(t, real_table, Part(t.heap, path, i)),
                            path, i)
    ELSE WalkArrayPrefix(t, UnionPointer(t.heap[t.res]), path, i + 1)

WalkArrayPrefix(st, real_table, path, i) ==
    IF st.fault THEN st
    ELSE IF i > Len(st.heap[path].vals) - 1 THEN [st EXCEPT !.res = real_table]
    ELSE ArrayPrefixFound(
           toml_table_get_by_string(st, real_table, Part(st.heap, path, i)),
           real_table, path, i)

(* The absent last segment: a new array holding one new empty table. *)
WalkCreateArray(st, real_table, part) ==
    With(toml_value_new_array(st), LAMBDA array :
    With(toml_value_new_table(array), LAMBDA new_table :
    With(toml_string_clone(
             toml_array_append(new_table, new_table.heap[array.res].pl,
                               new_table.res),
             part), LAMBDA part_copy :
        IF part_copy.fault THEN part_copy
        ELSE WalkInto(
               toml_table_set_by_string(part_copy, real_table, part_copy.res,
                                        array.res),
               new_table.res))))

(* The last segment found: a new empty table is appended to its array. *)
WalkAppend(t) ==
    With(toml_value_new_table(t), LAMBDA new_table :
        WalkInto(toml_array_append(new_table, t.heap[t.res].pl, new_table.res),
                 new_table.res))

ArrayLastFound(t, real_table, part) ==
    IF t.fault THEN t
    ELSE IF t.res = NULL THEN WalkCreateArray(t, real_table, part)
    ELSE IF t.heap[t.res].type # TOML_ARRAY
    THEN [toml_err_set(t, TOML_ERR_SYNTAX) EXCEPT !.res = NULL]
    ELSE WalkAppend(t)

(* The last segment of an array-of-tables header. *)
WalkArrayLast(st, path) ==
    IF st.fault THEN st
    ELSE ArrayLastFound(
           toml_table_get_by_string(
               st, st.res, Part(st.heap, path, Len(st.heap[path].vals))),
           st.res, Part(st.heap, path, Len(st.heap[path].vals)))

(* The loop over the segments of a regular header. *)
RECURSIVE WalkRegular(_, _, _, _)

RegularCreated(c, path, i) == WalkRegular(c, c.res, path, i + 1)

(* The first element is taken for the last. *)
LastElementTable_first(h, array) == UnionPointer(h[h[array].vals[1]])

(* elements[len - 1]->value.table *)
LastElementTable(h, array) ==
    UnionPointer(h[h[array].vals[Len(h[array].vals)]])

RegularFound(t, real_table, path, i) ==
    IF t.fault THEN t
    ELSE IF t.res = NULL
    THEN RegularCreated(WalkCreate(t, real_table, Part(t.heap, path, i)),
                        path, i)
    ELSE IF t.heap[t.res].type = TOML_ARRAY
    THEN (IF Len(t.heap[t.heap[t.res].pl].vals) = 0 THEN Fault(t)
          ELSE WalkRegular(t, LastElementTable(t.heap, t.heap[t.res].pl),
                           path, i + 1))
    ELSE IF t.heap[t.res].type = TOML_TABLE
    THEN WalkRegular(t, t.heap[t.res].pl, path, i + 1)
    ELSE WalkRegular(t, real_table, path, i + 1)

WalkRegular(st, real_table, path, i) ==
    IF st.fault THEN st
    ELSE IF i > Len(st.heap[path].vals) THEN [st EXCEPT !.res = real_table]
    ELSE RegularFound(
           toml_table_get_by_string(st, real_table, Part(st.heap, path, i)),
           real_table, path, i)

toml_walk_table_path(st, table, path, array_header) ==
    IF array_header
    THEN WalkArrayLast(WalkArrayPrefix(st, table, path, 1), path)
    ELSE WalkRegular(st, table, path, 1)

----------------------------------------------------------------------------
(* The table-header parser: one iteration of the while (1) loop of         *)
(* toml_parse_table.  flow = "loop" when the loop goes on, "break" when it *)
(* was left, "cleanup" when the function jumped to its cleanup label.      *)

\* The do-while over blanks inside a header: it goes on while the byte at
\* the cursor is a blank and is less than the byte at self->end.
RECURSIVE HeaderBlanks(_)
HeaderBlanks(st) ==
    LET s1 == toml_move_next(st)
    IN  IF /\ Byte(s1.ptr) < Byte(End)
           /\ Byte(s1.ptr) \in {Ch(" "), Ch("\t")}
        THEN HeaderBlanks(s1)
        ELSE s1

Break(st) == [st EXCEPT !.flow = "break"]

Cleanup(st) == [st EXCEPT !.flow = "cleanup"]

HeaderDot(st) ==
    IF st.fault THEN st
    ELSE IF st.ptr < End /\ Byte(st.ptr) = Ch(".")
    THEN Continue(toml_move_next(st))
    ELSE Continue(st)

(* The key part k.res, whether scanned or not, is wrapped and appended to  *)
(* the path; blanks and one '.' after it are consumed.                     *)
HeaderKeyPart(k, path) ==
    With(toml_value_new(k, TOML_STRING, k.res), LAMBDA key_part_value :
        HeaderDot(SkipBlanks(
            toml_array_append(key_part_value, path, key_part_value.res))))

HeaderScanned(k, path) ==
    IF k.fault THEN k
    ELSE IF k.res = NULL THEN Cleanup(k)
    ELSE HeaderKeyPart(k, path)

HeaderSegment(st, path, array_header) ==
    LET c == Byte(st.ptr)
    IN  IF c = Ch(" ") \/ c = Ch("\t") THEN Continue(HeaderBlanks(st))
        ELSE IF c = Ch("]")
        THEN (IF array_header
              THEN (IF st.ptr + 2 <= End /\ Match(st.ptr, <<"]", "]">>)
                    THEN Break(toml_next_n(st, 2))
                    ELSE Continue(st))
              ELSE Break(toml_move_next(st)))
        ELSE IF IsKeyChar(c) THEN HeaderScanned(ScanKey(st), path)
        ELSE HeaderKeyPart(
               [toml_err_set(st, TOML_ERR_SYNTAX) EXCEPT !.res = NULL], path)

RECURSIVE SkipBlanksAndCR(_)
SkipBlanksAndCR(st) ==
    IF st.ptr < End /\ Byte(st.ptr) \in {Ch(" "), Ch("\t"), Ch("\r")}
    THEN SkipBlanksAndCR(toml_move_next(st))
    ELSE st

HeaderNewline(st) ==
    IF st.ptr < End /\ Byte(st.ptr) # Ch("\n")
    THEN Cleanup(toml_err_set(st, TOML_ERR_SYNTAX))
    ELSE st

(* From the end of the loop to the call of toml_walk_table_path. *)
HeaderEnd(st, path) ==
    IF Len(st.heap[path].vals) = 0
    THEN Cleanup(toml_err_set(st, TOML_ERR_SYNTAX))
    ELSE HeaderNewline(SkipBlanksAndCR(st))

(* cleanup: toml_array_free(key_path); return rc; *)
HeaderCleanup(st, path, rc) ==
    [st EXCEPT !.heap = toml_array_free(st.heap, path), !.rc = rc]

----------------------------------------------------------------------------
(* The inputs. *)

(* The pieces an input is made of. *)
Lines ==
    { Str(<<"a", "=", "1", "\n">>),
      Str(<<"a", "=", "2", "\n">>),
      Str(<<"b", "=", "1", "\n">>),
      Str(<<"[", "a", "]", "\n">>),
      Str(<<"[", "a", ".", "b", "]", "\n">>),
      Str(<<"[", "[", "a", "]", "]", "\n">>),
      Str(<<"[", "[", "a", ".", "b", "]", "]", "\n">>),
      Str(<<"[", "]", "\n">>),
      Str(<<"[", "[", "a", "]", "\n">>),
      Str(<<"#", "\n">>),
      Str(<<"a", "\n">>),
      Str(<<"a", "=", "\"", "b", "\n">>),
      Str(<<"@">>) }

RECURSIVE Docs(_)
Docs(n) ==
    IF n = 0 THEN {<<>>}
    ELSE LET D == Docs(n - 1) IN D \cup {d \o l : d \in D, l \in Lines}

(* What may follow the input in memory: the terminator of a C string, or   *)
(* more text.                                                              *)
AfterBytes == {NUL, Ch("\n")}

----------------------------------------------------------------------------
(* The state machine. *)

Here == St(ptr, heap, err)

Frame(kp, ia, kt, kf, r) ==
    [key_path |-> kp, is_array |-> ia, kv_table |-> kt, kv_from |-> kf,
     ret |-> r, calls |-> calls, scanned |-> scanned]

Same == Frame(key_path, is_array, kv_table, kv_from, ret)

Idle == Frame(NULL, FALSE, NULL, "none", ret)

(* The step R executed undefined behaviour: it said so, or it freed an     *)
(* allocation a second time.                                               *)
NewUB(R) ==
    \/ R.ub
    \/ \E i \in 1..Len(R.heap) :
          /\ R.heap[i].frees >= 2
          /\ (i > Len(heap) \/ heap[i].frees < 2)

(* What a step that computed R can come to: an invalid access ends the     *)
(* process; undefined behaviour may end it or go unnoticed; a failed       *)
(* assert() aborts it unless asserts are compiled out.                     *)
Outcomes(R) ==
    IF R.fault THEN {"crashed"}
    ELSE {"go"}
         \cup (IF NewUB(R) THEN {"crashed"} ELSE {})
         \cup (IF R.af /\ ~asserted THEN {"aborted"} ELSE {})

(* The step repeats a loop iteration without moving the cursor. *)
Spinning(R, npc) == npc = pc /\ R.ptr = ptr /\ pc # "returned"

Step(R, npc, f) ==
    /\ Spinning(R, npc) => spin < MaxSpin
    /\ UNCHANGED <<entry, buf, len, after, root, it, visited>>
    /\ \E o \in Outcomes(R) :
          IF o = "go"
          THEN /\ ptr' = R.ptr
               /\ heap' = R.heap
               /\ err' = R.err
               /\ pc' = npc
               /\ key_path' = f.key_path
               /\ is_array' = f.is_array
               /\ kv_table' = f.kv_table
               /\ kv_from' = f.kv_from
               /\ ret' = f.ret
               /\ asserted' = (asserted \/ R.af)
               /\ ub' = (ub \/ NewUB(R))
               /\ spin' = IF Spinning(R, npc) THEN spin + 1 ELSE 0
               /\ calls' = f.calls
               /\ scanned' = f.scanned
          ELSE /\ pc' = o
               /\ ub' = (ub \/ o = "crashed")
               /\ UNCHANGED <<ptr, heap, err, key_path, is_array, kv_table,
                              kv_from, ret, asserted, spin, calls, scanned>>

(* The parser was made and a table allocated, no error being recorded. *)
ParserNew ==
    /\ after \in AfterBytes
    /\ ptr = 1
    /\ heap = <<Obj("table")>>
    /\ root = 1
    /\ err = TOML_OK
    /\ key_path = NULL
    /\ is_array = FALSE
    /\ ret = NULL
    /\ asserted = FALSE
    /\ spin = 0
    /\ calls = 0
    /\ it = NoIter
    /\ visited = <<>>
    /\ scanned = NULL

(* toml_parse entered: the parser was made and the root table allocated. *)
Parsing ==
    /\ ParserNew
    /\ pc = "parse"
    /\ kv_table = NULL
    /\ kv_from = "none"

(* toml_load_nstr(str, len) *)
Init ==
    /\ entry = "nstr"
    /\ buf \in Docs(MaxLines)
    /\ len = Len(buf)
    /\ ub = FALSE
    /\ Parsing

(* toml_load_str(str): the length given is sizeof(str), the size of a       *)
(* pointer; an end of the buffer that lies behind the NUL and the byte     *)
(* after it is no address of the string.                                   *)
PointerSizes == {4, 8}

(* Strings that end in empty lines. *)
BlankDocs == {l \o Str(<<"\n", "\n">>) : l \in Lines}

InitStr ==
    /\ entry = "str"
    /\ buf \in Docs(MaxLines) \cup BlankDocs
    /\ len \in PointerSizes
    /\ ub = (len > Len(buf) + 1)
    /\ Parsing

(* The driver loop of toml_parse, one iteration per step; an iteration     *)
(* that calls a parser goes on in the steps of that parser.                *)
DriverAt == SkipSpaces(Here)

DriverCh == Byte(DriverAt.ptr)

IsKeyStart(ch) == isalnum(ch) \/ ch = Ch("_") \/ ch = Ch("-")

toml_parse_return ==
    /\ pc = "parse"
    /\ ~(ptr < End)
    /\ Step(Here, "returned", [Same EXCEPT !.ret = root])

toml_parse_comment ==
    /\ pc = "parse"
    /\ ptr < End
    /\ DriverCh = Ch("#")
    /\ Step(toml_move_next(SkipComment(DriverAt)), "parse", Same)

toml_parse_newline ==
    /\ pc = "parse"
    /\ ptr < End
    /\ DriverCh = Ch("\n")
    /\ Step(toml_move_next(DriverAt), "parse", Same)

(* No branch of the loop body is taken; or the branch of ' ', '\t' and     *)
(* '\r' is, which after the skip of white space can only be at self->end,  *)
(* where its loop cannot move.                                             *)
toml_parse_other ==
    /\ pc = "parse"
    /\ ptr < End
    /\ DriverCh \notin {Ch("#"), Ch("["), Ch("\n")}
    /\ ~IsKeyStart(DriverCh)
    /\ Step(DriverAt, "parse", Same)

toml_parse_key_value_begin ==
    /\ pc = "parse"
    /\ ptr < End
    /\ IsKeyStart(DriverCh)
    /\ Step(DriverAt, "kv", Frame(NULL, FALSE, root, "parse", ret))

(* '[' is consumed and toml_parse_table runs up to its loop. *)
toml_parse_table_begin ==
    /\ pc = "parse"
    /\ ptr < End
    /\ DriverCh = Ch("[")
    /\ \E path \in {toml_array_new(toml_move_next(DriverAt))} :
       \E array_header \in {path.ptr < End /\ Byte(path.ptr) = Ch("[")} :
           Step(IF array_header THEN toml_move_next(path) ELSE path,
                "table", Frame(path.res, array_header, NULL, "none", ret))

toml_parse_table_segment ==
    /\ pc = "table"
    /\ \E R \in {HeaderSegment(Here, key_path, is_array)} :
           IF R.fault \/ R.flow = "loop" THEN Step(R, "table", Same)
           ELSE IF R.flow = "break" THEN Step(R, "table_end", Same)
           ELSE Step(HeaderCleanup(R, key_path, 0), "parse", Idle)

toml_parse_table_end ==
    /\ pc = "table_end"
    /\ \E R \in {HeaderEnd(Here, key_path)} :
           IF R.flow = "cleanup"
           THEN Step(HeaderCleanup(R, key_path, 0), "parse", Idle)
           ELSE Step(R, "walk", Same)

(* The call of toml_walk_table_path and what follows it: the jump to the   *)
(* error label when it returned NULL, the call of toml_parse_key_value     *)
(* otherwise.                                                              *)
toml_parse_table_walk ==
    /\ pc = "walk"
    /\ \E R \in {toml_walk_table_path(Here, root, key_path, is_array)} :
           IF R.fault THEN Step(R, "walk", Same)
           ELSE IF R.res = NULL
           THEN (IF R.err # 0
                 THEN Step(HeaderCleanup(R, key_path, R.err), "returned",
                           [Idle EXCEPT !.ret = NULL])
                 ELSE Step(HeaderCleanup(R, key_path, R.err), "parse", Idle))
           ELSE Step(R, "kv", Frame(key_path, is_array, R.res, "table", ret))

(* One iteration of the loop of toml_parse_key_value, and the return to    *)
(* its caller when the loop is left: toml_parse returns NULL on a non-zero *)
(* code, toml_parse_table frees key_path and returns 0.                    *)
toml_parse_key_value_step ==
    /\ pc = "kv"
    /\ \E R \in {toml_parse_key_value(Here, kv_table)} :
           IF R.fault \/ R.flow = "loop" THEN Step(R, "kv", Same)
           ELSE IF kv_from = "table"
           THEN Step(HeaderCleanup(R, key_path, 0), "parse", Idle)
           ELSE IF R.rc # 0
           THEN Step(R, "returned", [Idle EXCEPT !.ret = NULL])
           ELSE Step(R, "parse", Idle)

(* The caller sets a key of the table it was given to a new integer. *)
CallerKeys == {Str(<<"a">>), Str(<<"b">>)}

toml_table_setn_call ==
    /\ pc = "returned"
    /\ ret # NULL
    /\ it = NoIter
    /\ calls < MaxCalls
    /\ \E key \in CallerKeys :
       \E value \in {toml_value_new_integer(Here, 7)} :
           Step(toml_table_setn(value, ret, key, value.res), "returned",
                [Same EXCEPT !.calls = calls + 1])

(* The caller iterates the table it was given, as print_table does: while  *)
(* has_next, get the entry, then next.                                     *)
toml_table_iter_new_call ==
    /\ pc = "returned"
    /\ ret # NULL
    /\ it = NoIter
    /\ it' = toml_table_iter_new(heap, ret)
    /\ visited' = <<>>
    /\ UNCHANGED <<entry, buf, len, after, ptr, heap, err, pc, root, key_path,
                   is_array, kv_table, kv_from, ret, asserted, ub, spin, calls,
                   scanned>>

toml_table_iter_next_call ==
    /\ pc = "returned"
    /\ it # NoIter
    /\ toml_table_iter_has_next(it)
    /\ visited' = Append(visited, EntryAt(heap, it.table, toml_table_iter_get(it)))
    /\ it' = toml_table_iter_next(heap, it)
    /\ UNCHANGED <<entry, buf, len, after, ptr, heap, err, pc, root, key_path,
                   is_array, kv_table, kv_from, ret, asserted, ub, spin, calls,
                   scanned>>

(* The caller is done with the table it was given and frees it. *)
toml_table_free_call ==
    /\ pc = "returned"
    /\ ret # NULL
    /\ it = NoIter
    /\ Step(Freeing(Here, toml_table_free(heap, ret)), "freed", Same)

Next ==
    \/ toml_parse_return
    \/ toml_parse_comment
    \/ toml_parse_newline
    \/ toml_parse_other
    \/ toml_parse_key_value_begin
    \/ toml_parse_table_begin
    \/ toml_parse_table_segment
    \/ toml_parse_table_end
    \/ toml_parse_table_walk
    \/ toml_parse_key_value_step
    \/ toml_table_setn_call
    \/ toml_table_iter_new_call
    \/ toml_table_iter_next_call
    \/ toml_table_free_call

Spec == Init /\ [][Next]_vars

SpecStr == InitStr /\ [][Next]_vars

(* toml_load_nstr on inputs made of header lines, well and ill formed. *)
HeaderLines ==
    { Str(<<"[", "a", "]", "\n">>),
      Str(<<"[", "a", "]", " ", "\n">>),
      Str(<<"[", "a", "]", " ", "#", "\n">>),
      Str(<<"[", "a", "]", "#", "x", "\n">>),
      Str(<<"[", "[", "a", "]", "]", "\n">>),
      Str(<<"[", "[", "a", "]", "]", "\t", "#", "\n">>),
      Str(<<"[", "@", "]", "\n">>),
      Str(<<"[", "a", ".", "@", "]", "\n">>),
      Str(<<"[", "a", "\n">>),
      Str(<<"[", "a">>),
      Str(<<"[", "[", "a", "]", "\n">>),
      Str(<<"[", "a", "]", "x", "\n">>),
      Str(<<"[", "]", "\n">>),
      Str(<<"[", "[", "]", "]", "\n">>),
      Str(<<"b", "=", "1", "\n">>),
      Str(<<"#", "\n">>),
      Str(<<"@">>) }

RECURSIVE HeaderDocs(_)
HeaderDocs(n) ==
    IF n = 0 THEN {<<>>}
    ELSE LET D == HeaderDocs(n - 1)
         IN  D \cup {d \o l : d \in D, l \in HeaderLines}

InitHeader ==
    /\ entry = "nstr"
    /\ buf \in HeaderDocs(MaxHeaders)
    /\ len = Len(buf)
    /\ ub = FALSE
    /\ Parsing

SpecHeader == InitHeader /\ [][Next]_vars

(* The scanners on their own: toml_parse_value at the start of a token,    *)
(* and toml_parse_key_value on the line a=token in the root table.         *)
Followers == {<<>>, Str(<<" ">>), Str(<<",">>), Str(<<"]">>), Str(<<"}">>),
              Str(<<"\n">>), Str(<<"x">>)}

BooleanTokens ==
    {w \o f : w \in {Str(<<"t", "r", "u", "e">>), Str(<<"f", "a", "l", "s", "e">>),
                     Str(<<"t", "r", "u">>), Str(<<"f", "a", "l", "s">>)},
              f \in Followers}

NumberTokens ==
    { Str(<<"1">>), Str(<<"1", "2">>), Str(<<"+", "1">>), Str(<<"-", "1">>),
      Str(<<"1", "_", "0", "0", "0">>), Str(<<"1", "_", "2", "_", "3">>),
      Str(<<"_", "1">>), Str(<<"1", "_">>), Str(<<"1", "_", "_", "0">>),
      Str(<<"1", "_", ".", "5">>), Str(<<"1", ".", "_", "5">>),
      Str(<<"1", "_", "-", "2">>), Str(<<"1", "e", "_", "5">>),
      Str(<<"1", "_", "e", "5">>), Str(<<"+", "_", "1">>),
      Str(<<"1", ".", "5">>), Str(<<"1", ".", "2", ".", "3">>),
      Str(<<"1", "e", "5">>), Str(<<"1", "e", "-", "5">>),
      Str(<<"0", "x", "1", "F">>), Str(<<"0", "o", "1", "7">>),
      Str(<<"0", "b", "1", "1">>), Str(<<"1", "x">>),
      Str(<<"i", "n", "f">>), Str(<<"n", "a", "n">>), Str(<<"-", "i", "n", "f">>),
      Str(<<"1", "-", "2">>), Str(<<"1", "2", "-", "3">>),
      Str(<<"1", "9", "7", "9", "-", "0", "5", "-", "2", "7">>),
      Str(<<"1", "\n">>), Str(<<"1", " ">>), Str(<<"1", "_", "0", "\n">>) }

OtherTokens ==
    { Str(<<"\"", "b", "\"">>), Str(<<"\"", "b">>), Str(<<"\"", "b", "\n">>),
      Str(<<"\"", "\\", "y", "\"">>), Str(<<"\"", "\\", "n", "\"">>),
      Str(<<"'", "b", "'">>), Str(<<"'", "b">>), Str(<<"'", "'">>),
      Str(<<"'", "a", "b", "c", "d", "e", "f", "a", "'">>),
      Str(<<"'", "a", "b", "c", "d", "e", "f", "a", "b", "'">>),
      Str(<<"@">>), Str(<<"[", "1", "]">>), Str(<<"[", "1">>),
      Str(<<"[", "t", "r", "u", "e", ",", "f", "a", "l", "s", "e", "]">>),
      Str(<<"[", "f", "a", "l", "s", "e", ",", "t", "r", "u", "e", "]">>),
      Str(<<"{", "a", " ", "=", " ", "f", "a", "l", "s", "e", "}">>),
      Str(<<"{", "a", " ", "=", " ", "t", "r", "u", "e", "}">>),
      Str(<<"{", "a", "=", "1", "}">>), <<>> }

(* Tokens with a base prefix. *)
BaseTokens ==
    { Str(<<"0", "x", "F", "F">>), Str(<<"0", "b", "1", "0", "1">>),
      Str(<<"0", "x", "1", ".", "5">>), Str(<<"0", "o", "1", ".", "5">>),
      Str(<<"0", "b", "1", ".", "1">>), Str(<<"0", "b", "1", "2">>),
      Str(<<"0", "o", "1", "8">>), Str(<<"0", "x", "1", "y">>),
      Str(<<"0", "o", "1", "e", "5">>), Str(<<"0", "b", "1", "e", "1">>),
      Str(<<"0", "x", "1", "e", "5">>), Str(<<"0", "x", "F", "F", "\n">>),
      Str(<<"0", "o", "7", "_", "7">>) }

(* Decimal tokens. *)
DecimalTokens ==
    { Str(<<"4", "2">>), Str(<<"+", "9", "9">>), Str(<<"1", "e", "1", "0">>),
      Str(<<"1", "e">>), Str(<<"1", ".">>), Str(<<".", "5">>),
      Str(<<"1", "e", "5", ".", "2">>), Str(<<"1", "e", "-", "+", "5">>),
      Str(<<"1", "e", "+", "5", "e", "+", "3">>), Str(<<"1", "+", "2">>),
      Str(<<"1", "e", "5", "+", "3">>), Str(<<"1", ".", "5", "e", "5">>),
      Str(<<"1", ".", ".", "2">>), Str(<<"-", "1", ".", "5">>),
      Str(<<"1", "e", "+", "5">>), Str(<<"1", "E", "5">>),
      Str(<<"1", ".", "5", "\n">>), Str(<<"+">>), Str(<<"1", ".", "e">>) }

(* Basic strings of one unicode escape: every \u of four of the sample     *)
(* digits, and \U escapes around the limits of the encoded forms.          *)
HexSample == {"0", "7", "8", "d", "e", "f", "y"}

Escaped(u, digits) == Str(<<"\"", "\\", u>> \o digits \o <<"\"">>)

UnicodeTokens ==
    {Escaped("u", d) : d \in [1..4 -> HexSample]}
    \cup {Escaped("U", d) : d \in
            { <<"0", "0", "0", "0", "0", "0", "4", "1">>,
              <<"0", "0", "0", "0", "0", "0", "7", "f">>,
              <<"0", "0", "0", "0", "0", "0", "8", "0">>,
              <<"0", "0", "0", "0", "d", "8", "0", "0">>,
              <<"0", "0", "0", "0", "f", "f", "f", "d">>,
              <<"0", "0", "0", "0", "f", "f", "f", "f">>,
              <<"0", "0", "0", "1", "0", "0", "0", "0">>,
              <<"0", "0", "0", "1", "F", "6", "0", "0">>,
              <<"0", "0", "1", "f", "f", "f", "f", "f">>,
              <<"0", "0", "2", "0", "0", "0", "0", "0">>,
              <<"0", "3", "f", "f", "f", "f", "f", "f">>,
              <<"0", "4", "0", "0", "0", "0", "0", "0">>,
              <<"7", "f", "f", "f", "f", "f", "f", "f">>,
              <<"8", "0", "0", "0", "0", "0", "0", "0">>,
              <<"f", "f", "f", "f", "f", "f", "f", "f">>,
              <<"0", "0", "0", "0", "0", "0", "y", "1">>,
              <<"0", "0", "0", "0", "0", "4", "1">> }}
    \cup { Str(<<"\"", "\\", "u">>), Str(<<"\"", "\\", "u", "0", "0">>),
           Str(<<"\"", "\\", "u", "0", "0", "4">>),
           Str(<<"\"", "\\", "u", "0", "0", "4", "1">>),
           Str(<<"\"", "\\", "U", "0", "0", "0", "0", "0", "0", "4">>) }

(* Basic strings with the escapes of one byte. *)
EscapeTokens ==
    {Str(<<"\"", "\\", e, "\"">>) :
        e \in {"b", "t", "n", "f", "r", "\"", "\\", "a", "x", " ", "0"}}
    \cup { Str(<<"\"", "\\", "b", "\\", "t", "\\", "n", "\\", "f", "\\", "r",
                 "\\", "\"", "\\", "\\", "\"">>),
           Str(<<"\"", "a", "\\", "t", "b", "\"">>),
           Str(<<"\"", "a", "\\", "t", "b">>),
           Str(<<"\"", "a", "\\", "t", "\n", "b", "\"">>),
           Str(<<"\"", "\\">>), Str(<<"\"", "\\", "\"">>),
           Str(<<"\"", "\"">>), Str(<<"\"", "a", "b", "\"", "x">>),
           Str(<<"\"", "\\", "\n", "\"">>) }

(* Multi-line basic strings: the text between two delimiters, and texts   *)
(* that no delimiter closes.                                               *)
Delimiter == <<"\"", "\"", "\"">>

MultiLineTexts ==
    { <<>>, <<"a", "b">>, <<"\n", "a", "b">>, <<"\n", "\n", "a", "b">>,
      <<"\n">>, <<"a", "\n", "b">>, <<"a", "\"", "b">>, <<"a", "\"", "\"", "b">>,
      <<"a", "\\", "\n", " ", " ", "b">>, <<"a", "\\", "\n", "b">>,
      <<"a", "\\", "\n", "\t", "\r", " ", "b">>,
      <<"a", "\\", "\n", "\n", "b">>, <<"a", "\\", "\n", " ", "\n", " ", "b">>,
      <<"a", "\\", "\n">>, <<"a", "\\", "\n", " ">>,
      <<"\n", "a", "\\", "\n", " ", "b", "\n">>,
      <<"a", "\\", "t", "b">>, <<"a", "\\", "\"">>, <<"a", "\\", "\\">>,
      <<"a", "\\", "x">>, <<"a", "\\", " ", "\n", "b">>, <<"a", " ", "b">> }

MultiLineTokens ==
    {Str(Delimiter \o t \o Delimiter) : t \in MultiLineTexts}
    \cup {Str(Delimiter \o t \o Delimiter \o <<"\"">>) : t \in MultiLineTexts}
    \cup {Str(Delimiter \o t) : t \in MultiLineTexts}
    \cup {Str(Delimiter \o t \o <<"\"", "\"">>) : t \in MultiLineTexts}

(* Inline tables and arrays, closed and not, with and without commas. *)
InlineTokens ==
    { Str(<<"{", "}">>), Str(<<"{", "}", "\n">>), Str(<<"{", " ", "}">>),
      Str(<<"{", "a", "=", "1", ",", "a", "=", "2", "}">>),
      Str(<<"{", "a", "=", "1", ",", "b", "=", "2", "}">>),
      Str(<<"{", "a", "=", "1", " ", ",", " ", "b", "=", "2", " ", "}">>),
      Str(<<"{", "a", "=", "1", " ", "b", "=", "2", "}">>),
      Str(<<"{", "\n", "}">>), Str(<<"{", "a", "=", "1", "\n", "}">>),
      Str(<<"{", "a", "=", "1", ",", "\n", "b", "=", "2", "}">>),
      Str(<<"{", "a", "=", "1">>), Str(<<"{", "a", "=", "1", ",">>),
      Str(<<"{">>), Str(<<"{", "a", "=", "1", ",", "}">>),
      Str(<<"{", "a", "=", "{", "}", "}">>),
      Str(<<"{", "a", "=", "{", "b", "=", "1", "}", "}">>),
      Str(<<"{", "a", "=", "{", "b", "=", "1", "}">>),
      Str(<<"{", "a", "=", "[", "1", "}">>) }

ArrayTokens ==
    { Str(<<"[", "]">>), Str(<<"[", "1", ",", "2", "]">>),
      Str(<<"[", "1", " ", "2", "]">>), Str(<<"[", "1", "\n", "2", "]">>),
      Str(<<"[", "1", ",", "2">>), Str(<<"[">>), Str(<<"[", "1", ",">>),
      Str(<<"[", "1", ",", "]">>), Str(<<"[", " ", "1", " ", ",", " ", "2", " ", "]">>),
      Str(<<"[", "[", "1", "]", ",", "[", "2", "]", "]">>),
      Str(<<"[", "[", "1", "]", " ", "[", "2", "]", "]">>),
      Str(<<"[", "[", "1", "]", ",", "[", "2", "]">>),
      Str(<<"[", "[", "1", "]">>),
      Str(<<"[", "{", "a", "=", "1", "]">>),
      Str(<<"[", "{", "a", "=", "1", "}", " ", "{", "a", "=", "2", "}", "]">>),
      Str(<<"[", "'", "a", "'", " ", "'", "b", "'", "]">>) }

ValueTokens ==
    BooleanTokens \cup NumberTokens \cup OtherTokens \cup BaseTokens
        \cup DecimalTokens \cup UnicodeTokens \cup EscapeTokens
        \cup MultiLineTokens \cup InlineTokens \cup ArrayTokens

InitValue ==
    /\ entry = "nstr"
    /\ ParserNew
    /\ \/ /\ buf \in ValueTokens \ {<<>>}
          /\ pc = "value"
          /\ kv_table = NULL
          /\ kv_from = "none"
       \/ /\ buf \in {Str(<<"a", "=">>) \o t : t \in ValueTokens}
          /\ pc = "kv"
          /\ kv_table = root
          /\ kv_from = "parse"
    /\ len = Len(buf)
    /\ ub = FALSE

toml_parse_value_call ==
    /\ pc = "value"
    /\ \E R \in {toml_parse_value(Here)} :
           Step(R, "value_end", [Same EXCEPT !.scanned = R.res])

NextValue ==
    \/ toml_parse_value_call
    \/ toml_parse_key_value_step

SpecValue == InitValue /\ [][NextValue]_vars

----------------------------------------------------------------------------
(* What the properties below observe. *)

IsTable(h, t) == IsObj(h, t, "table")

(* The keys of table t, as byte strings, in the order of its entries. *)
KeyBytes(h, t) == [i \in 1..Len(h[t].keys) |-> h[h[t].keys[i]].bytes]

(* The value table t holds under the byte string name, NULL when none. *)
Lookup(h, t, name) ==
    LET I == {i \in 1..Len(h[t].keys) : KeyBytes(h, t)[i] = name}
    IN  IF I = {} THEN NULL ELSE h[t].vals[LastOf(I)]

(* The document below a table and below a value, by content: what a reader *)
(* of the tree sees, whatever the addresses.                               *)
RECURSIVE TableDoc(_, _)
RECURSIVE ValueDoc(_, _)

TableDoc(h, t) ==
    [i \in 1..Len(h[t].keys) |->
        <<h[h[t].keys[i]].bytes, ValueDoc(h, h[t].vals[i])>>]

ValueDoc(h, v) ==
    IF h[v].type = TOML_TABLE THEN <<"table", TableDoc(h, h[v].pl)>>
    ELSE IF h[v].type = TOML_ARRAY
    THEN <<"array", [i \in 1..Len(h[h[v].pl].vals) |->
                        ValueDoc(h, h[h[v].pl].vals[i])]>>
    ELSE IF h[v].type = TOML_STRING THEN <<"string", h[h[v].pl].bytes>>
    ELSE IF h[v].type = TOML_FLOAT THEN <<"float", h[v].bytes>>
    ELSE IF h[v].type = TOML_INTEGER THEN <<"integer", h[v].pl>>
    ELSE IF h[v].type = TOML_BOOLEAN THEN <<"boolean", h[v].pl>>
    ELSE <<"datetime">>

(* Documents written down. *)
Entry(key, doc) == <<key, doc>>

TableOf(entries) == <<"table", entries>>

ArrayOf(elements) == <<"array", elements>>

EmptyTable == TableOf(<<>>)

IntegerOf(n) == <<"integer", n>>

Running == pc \in {"parse", "table", "table_end", "walk", "kv"}

----------------------------------------------------------------------------
(* C1: when toml_load_nstr returns, either it returns the root table and   *)
(* the error code is TOML_OK, or it returns NULL and the error code is not *)
(* TOML_OK.                                                                *)
C1_TableOrError ==
    pc = "returned" =>
        \/ (ret = root /\ err = TOML_OK)
        \/ (ret = NULL /\ err # TOML_OK)

(* A table is returned together with a recorded error. *)
C1_TableWithError == pc = "returned" /\ ret = root /\ err # TOML_OK

(* C2: once an error is recorded, the cursor consumes no further input and *)
(* the document tree is not mutated again before toml_parse returns.       *)
C2_FirstErrorAborts ==
    [][(Running /\ err # TOML_OK) =>
          (ptr' = ptr /\ TableDoc(heap', root) = TableDoc(heap, root))]_vars

(* A key is set in the root table after an error was recorded. *)
C2_SetAfterError ==
    /\ pc = "returned"
    /\ err # TOML_OK
    /\ ~ub
    /\ buf = Str(<<"[", "]", "\n", "b", "=", "1", "\n">>)
    /\ KeyBytes(heap, root) = <<Str(<<"b">>)>>

(* C3: every iteration of the driver loop of toml_parse and of the         *)
(* header-segment loop of toml_parse_table either advances the cursor or   *)
(* leaves the loop.                                                        *)
C3_LoopsAdvance ==
    [][(pc \in {"parse", "table"} /\ pc' = pc) => ptr' > ptr]_vars

(* A loop has repeated its iteration with the cursor in place. *)
C3_Spinning == pc \in {"parse", "table"} /\ spin = MaxSpin

(* C4: when toml_load_nstr returns after an error, every Table, Array,     *)
(* Value and String allocated by that parse has been released exactly      *)
(* once.                                                                   *)
C4_FailureReleasesAll ==
    (pc = "returned" /\ ret = NULL) =>
        \A i \in 1..Len(heap) : heap[i].frees = 1

(* A failed parse has returned and the root table was never released. *)
C4_RootLeaked ==
    pc = "returned" /\ ret = NULL /\ err # TOML_OK /\ heap[root].frees = 0

----------------------------------------------------------------------------
(* Paths of headers, read off the tree. *)

(* The segments of the header being parsed, as byte strings. *)
PathNames(h, path) ==
    [i \in 1..Len(h[path].vals) |->
        IF IsObj(h, Part(h, path, i), "string")
        THEN h[Part(h, path, i)].bytes ELSE <<>>]

(* The table a header descends into below value v: the table v holds, or,  *)
(* when arrays count, the table the last element of the array v holds;     *)
(* NULL otherwise.                                                         *)
Below(h, v, arrays) ==
    IF h[v].type = TOML_TABLE THEN h[v].pl
    ELSE IF /\ arrays
            /\ h[v].type = TOML_ARRAY
            /\ h[h[v].pl].vals # <<>>
            /\ h[h[h[v].pl].vals[Len(h[h[v].pl].vals)]].type = TOML_TABLE
    THEN h[h[h[v].pl].vals[Len(h[h[v].pl].vals)]].pl
    ELSE NULL

(* The table names[i .. n] lead to from table t; NULL when a segment is    *)
(* absent or leads into no table.                                          *)
RECURSIVE Resolve(_, _, _, _, _, _)
Resolve(h, t, names, i, n, arrays) ==
    IF t = NULL THEN NULL
    ELSE IF i > n THEN t
    ELSE IF Lookup(h, t, names[i]) = NULL THEN NULL
    ELSE Resolve(h, Below(h, Lookup(h, t, names[i]), arrays), names, i + 1, n,
                 arrays)

(* Every segment of names[i .. n] that exists from table t leads into a    *)
(* table.                                                                  *)
RECURSIVE Walkable(_, _, _, _, _, _)
Walkable(h, t, names, i, n, arrays) ==
    \/ i > n
    \/ Lookup(h, t, names[i]) = NULL
    \/ /\ Below(h, Lookup(h, t, names[i]), arrays) # NULL
       /\ Walkable(h, Below(h, Lookup(h, t, names[i]), arrays), names, i + 1,
                   n, arrays)

(* Table t of the state before the step has, after it, the entries it had  *)
(* and possibly new ones behind them, each a new key of the path holding a *)
(* new table.                                                              *)
OnlyInserted(t, names) ==
    /\ Len(heap'[t].keys) >= Len(heap[t].keys)
    /\ SubSeq(heap'[t].keys, 1, Len(heap[t].keys)) = heap[t].keys
    /\ SubSeq(heap'[t].vals, 1, Len(heap[t].vals)) = heap[t].vals
    /\ \A j \in (Len(heap[t].keys) + 1)..Len(heap'[t].keys) :
          /\ heap'[t].keys[j] > Len(heap)
          /\ heap'[t].vals[j] > Len(heap)
          /\ \E k \in 1..Len(names) : heap'[heap'[t].keys[j]].bytes = names[k]

(* Nothing that existed before the step was changed by it, but for the     *)
(* new entries of tables.                                                  *)
OnlyInsertions(names) ==
    \A x \in 1..Len(heap) :
        IF IsTable(heap, x) THEN OnlyInserted(x, names)
        ELSE heap'[x] = heap[x]

(* C5: a regular header [k1.k2...kn] is resolved from the root segment by  *)
(* segment: an absent key gets a new empty table, a table is descended     *)
(* into, an array of tables is descended into through its last element;    *)
(* the table reached is the active table, and nothing but the newly        *)
(* inserted keys is added, removed or changed.                             *)
C5_RegularHeader ==
    [][(/\ pc = "walk"
        /\ ~is_array
        /\ Walkable(heap, root, PathNames(heap, key_path), 1,
                    Len(heap[key_path].vals), TRUE))
       => LET names == PathNames(heap, key_path)
              n == Len(names)
              known == Resolve(heap, root, names, 1, n, TRUE)
              reached == Resolve(heap', root, names, 1, n, TRUE)
          IN  /\ pc' = "kv"
              /\ reached # NULL
              /\ kv_table' = reached
              /\ known # NULL => reached = known
              /\ known = NULL => (reached > Len(heap) /\ heap'[reached].keys = <<>>)
              /\ OnlyInsertions(names)]_vars

(* The header [a.b] has been resolved through the last of two tables of    *)
(* the array a, where b was absent.                                        *)
C5_ThroughLastElement ==
    /\ pc = "kv"
    /\ kv_from = "table"
    /\ ~is_array
    /\ PathNames(heap, key_path) = <<Str(<<"a">>), Str(<<"b">>)>>
    /\ Lookup(heap, root, Str(<<"a">>)) # NULL
    /\ heap[Lookup(heap, root, Str(<<"a">>))].type = TOML_ARRAY
    /\ Len(heap[heap[Lookup(heap, root, Str(<<"a">>))].pl].vals) = 2
    /\ kv_table = Resolve(heap, root, PathNames(heap, key_path), 1, 2, TRUE)
    /\ heap[kv_table].keys = <<>>
    /\ TableDoc(heap, root) =
         <<Entry(Str(<<"a">>),
                 ArrayOf(<<EmptyTable,
                           TableOf(<<Entry(Str(<<"b">>), EmptyTable)>>)>>))>>

(* The header being resolved, seen from the state before the step: its     *)
(* segments, and the table its segments but the last lead to.              *)
Names == PathNames(heap, key_path)

Parent(arrays) == Resolve(heap, root, Names, 1, Len(Names) - 1, arrays)

(* The last segment of the header names nothing yet, or an array. *)
LastIsFree(t) ==
    \/ t = NULL
    \/ Lookup(heap, t, Names[Len(Names)]) = NULL
    \/ heap[Lookup(heap, t, Names[Len(Names)])].type = TOML_ARRAY

(* C6: every segment but the last of an array-of-tables header is walked   *)
(* as for a regular header, an existing array being descended into through *)
(* its last element: after [[a]], [[a.b]] creates or extends the array b   *)
(* inside the last table of the array a.                                   *)
C6_ArrayHeaderPrefix ==
    [][(/\ pc = "walk"
        /\ is_array
        /\ Walkable(heap, root, Names, 1, Len(Names) - 1, TRUE)
        /\ LastIsFree(Parent(TRUE)))
       => LET reached == Resolve(heap', root, Names, 1, Len(Names) - 1, TRUE)
          IN  /\ pc' = "kv"
              /\ reached # NULL
              /\ Parent(TRUE) # NULL => reached = Parent(TRUE)
              /\ Lookup(heap', reached, Names[Len(Names)]) # NULL
              /\ kv_table' =
                   Below(heap', Lookup(heap', reached, Names[Len(Names)]), TRUE)]_vars

(* The header [[a.b]] is about to be resolved where a is an array of       *)
(* tables.                                                                 *)
C6_PrefixIsArray ==
    /\ pc = "walk"
    /\ is_array
    /\ Names = <<Str(<<"a">>), Str(<<"b">>)>>
    /\ Lookup(heap, root, Str(<<"a">>)) # NULL
    /\ heap[Lookup(heap, root, Str(<<"a">>))].type = TOML_ARRAY
    /\ Parent(TRUE) # NULL

(* The name of the last segment of the header being resolved. *)
LastName == Names[Len(Names)]

(* Value v of the state after the step is a table value created by the     *)
(* step, holding a new table without entries.                              *)
NewEmptyTable(v) ==
    /\ v > Len(heap)
    /\ heap'[v].type = TOML_TABLE
    /\ heap'[v].pl > Len(heap)
    /\ IsTable(heap', heap'[v].pl)
    /\ heap'[heap'[v].pl].keys = <<>>

(* Table t has, after the step, the entries it had before it and one more  *)
(* behind them, under a new key of the given name, holding value v.        *)
InsertedLast(t, name, v) ==
    /\ Len(heap'[t].keys) = Len(heap[t].keys) + 1
    /\ SubSeq(heap'[t].keys, 1, Len(heap[t].keys)) = heap[t].keys
    /\ SubSeq(heap'[t].vals, 1, Len(heap[t].vals)) = heap[t].vals
    /\ heap'[heap'[t].keys[Len(heap'[t].keys)]].bytes = name
    /\ heap'[t].vals[Len(heap'[t].vals)] = v

(* The last segment was absent from table t of the state after the step: a *)
(* new array holding one new empty table is inserted under it.             *)
ArrayCreated(t) ==
    LET array == Lookup(heap', t, LastName)
    IN  /\ array # NULL
        /\ array > Len(heap)
        /\ heap'[array].type = TOML_ARRAY
        /\ Len(heap'[heap'[array].pl].vals) = 1
        /\ NewEmptyTable(heap'[heap'[array].pl].vals[1])
        /\ kv_table' = heap'[heap'[heap'[array].pl].vals[1]].pl
        /\ t <= Len(heap) => InsertedLast(t, LastName, array)

(* The last segment holds the array value: one new empty table is appended *)
(* to it and the elements it had are unchanged.                            *)
ArrayExtended(t, array) ==
    LET elements == heap[heap[array].pl].vals
        grown == heap'[heap'[array].pl].vals
    IN  /\ Lookup(heap', t, LastName) = array
        /\ heap'[array].pl = heap[array].pl
        /\ Len(grown) = Len(elements) + 1
        /\ SubSeq(grown, 1, Len(elements)) = elements
        /\ \A i \in 1..Len(elements) :
              ValueDoc(heap', elements[i]) = ValueDoc(heap, elements[i])
        /\ NewEmptyTable(grown[Len(grown)])
        /\ kv_table' = heap'[grown[Len(grown)]].pl
        /\ heap'[t].keys = heap[t].keys
        /\ heap'[t].vals = heap[t].vals

(* Documents made of [[a]] sections: a line is the header or sets a key   *)
(* to an integer.                                                          *)
SectionLines ==
    << [text |-> Str(<<"[", "[", "a", "]", "]", "\n">>), key |-> <<>>, n |-> 0],
       [text |-> Str(<<"a", "=", "1", "\n">>), key |-> Str(<<"a">>), n |-> 1],
       [text |-> Str(<<"a", "=", "2", "\n">>), key |-> Str(<<"a">>), n |-> 2],
       [text |-> Str(<<"b", "=", "1", "\n">>), key |-> Str(<<"b">>), n |-> 1] >>

RECURSIVE SectionSeqs(_)
SectionSeqs(n) ==
    IF n = 1 THEN {<<1>>}
    ELSE LET S == SectionSeqs(n - 1)
         IN  S \cup {Append(s, l) : s \in S, l \in 1..Len(SectionLines)}

RECURSIVE SectionText(_)
SectionText(seq) ==
    IF seq = <<>> THEN <<>>
    ELSE SectionText(SubSeq(seq, 1, Len(seq) - 1))
         \o SectionLines[seq[Len(seq)]].text

(* The entries of a section after one more of its lines. *)
SectionPut(entries, line) ==
    IF \E i \in 1..Len(entries) : entries[i][1] = line.key
    THEN [i \in 1..Len(entries) |->
            IF entries[i][1] = line.key
            THEN Entry(line.key, IntegerOf(line.n)) ELSE entries[i]]
    ELSE Append(entries, Entry(line.key, IntegerOf(line.n)))

(* The tables the sections of the document are read as, in its order. *)
RECURSIVE SectionDocs(_)
SectionDocs(seq) ==
    IF seq = <<>> THEN <<>>
    ELSE LET before == SectionDocs(SubSeq(seq, 1, Len(seq) - 1))
             line == SectionLines[seq[Len(seq)]]
         IN  IF line.key = <<>> THEN Append(before, EmptyTable)
             ELSE [before EXCEPT
                     ![Len(before)] = TableOf(SectionPut(@[2], line))]

(* C7: at the last segment of an array-of-tables header, an absent key     *)
(* gets a new array holding exactly one new empty table, an array gets     *)
(* exactly one new empty table appended behind its unchanged elements, and *)
(* the new table becomes the active table; so successive [[a]] sections    *)
(* give an array of as many tables under a, each holding the key-values of *)
(* its own section, in the order of the document.                          *)
C7_ArrayHeaderLast ==
    [][/\ (/\ pc = "walk"
           /\ is_array
           /\ Walkable(heap, root, Names, 1, Len(Names) - 1, FALSE)
           /\ LastIsFree(Parent(FALSE)))
          => LET t == Resolve(heap', root, Names, 1, Len(Names) - 1, FALSE)
                 found == IF Parent(FALSE) = NULL THEN NULL
                          ELSE Lookup(heap, Parent(FALSE), LastName)
             IN  /\ pc' = "kv"
                 /\ t # NULL
                 /\ Parent(FALSE) # NULL => t = Parent(FALSE)
                 /\ IF found = NULL THEN ArrayCreated(t)
                    ELSE ArrayExtended(t, found)
       /\ (pc = "parse" /\ pc' = "returned")
          => \A seq \in SectionSeqs(MaxLines) :
                buf = SectionText(seq)
                => /\ ret' = root
                   /\ TableDoc(heap', root)
                        = <<Entry(Str(<<"a">>), ArrayOf(SectionDocs(seq)))>>]_vars

(* A second [[a]] header was resolved after a first section that set b:   *)
(* the array under a holds the table of the first section and a new empty  *)
(* table, which is the active one.                                         *)
C7_SecondSection ==
    /\ pc = "kv"
    /\ kv_from = "table"
    /\ buf = SectionText(<<1, 4, 1>>)
    /\ TableDoc(heap, root) =
         <<Entry(Str(<<"a">>),
                 ArrayOf(<<TableOf(<<Entry(Str(<<"b">>), IntegerOf(1))>>),
                           EmptyTable>>))>>
    /\ kv_table = LastElementTable(heap, heap[Lookup(heap, root, Str(<<"a">>))].pl)

(* The entries of every table and the elements of every array of the state *)
(* before the step are the same after it, and nothing was allocated.       *)
TreeUntouched ==
    /\ Len(heap') = Len(heap)
    /\ \A x \in 1..Len(heap) :
          /\ heap'[x].keys = heap[x].keys
          /\ heap'[x].vals = heap[x].vals
          /\ heap'[x].type = heap[x].type
          /\ heap'[x].pl = heap[x].pl

(* C8: when the last segment of an array-of-tables header names a key      *)
(* whose value is not an array, the resolution fails with a syntax error,  *)
(* the value is left as it was, no table is appended anywhere, and the     *)
(* parse returns no table.                                                 *)
C8_NotAnArray ==
    [][(/\ pc = "walk"
        /\ is_array
        /\ Walkable(heap, root, Names, 1, Len(Names) - 1, FALSE)
        /\ Parent(FALSE) # NULL
        /\ ~LastIsFree(Parent(FALSE)))
       => /\ pc' = "returned"
          /\ ret' = NULL
          /\ err' = TOML_ERR_SYNTAX
          /\ TreeUntouched]_vars

(* The header [[a]] named a table after an error had been recorded and     *)
(* passed over: the assertion of toml_err_set failed.                      *)
C8_AbortedOnSecondError ==
    /\ pc = "aborted"
    /\ is_array
    /\ err # TOML_OK
    /\ buf = Str(<<"[", "a", "]", "\n", "a", "\n", "[", "[", "a", "]", "]", "\n">>)

(* The keys of table t are pairwise different byte strings. *)
UniqueKeys(h, t) ==
    \A i, j \in 1..Len(h[t].keys) :
        h[h[t].keys[i]].bytes = h[h[t].keys[j]].bytes => i = j

(* Table t after the step: as it was, or one of its entries holds a new    *)
(* value in place, or one entry under a key it did not hold was appended.  *)
SetOnce(t) ==
    \/ /\ heap'[t].keys = heap[t].keys
       /\ \E i \in 1..Len(heap[t].vals) :
             /\ heap'[t].vals = [heap[t].vals EXCEPT ![i] = heap'[t].vals[i]]
             /\ heap'[t].vals[i] > Len(heap)
    \/ /\ heap'[t].keys = heap[t].keys
       /\ heap'[t].vals = heap[t].vals
    \/ /\ Len(heap'[t].keys) = Len(heap[t].keys) + 1
       /\ Len(heap'[t].vals) = Len(heap[t].vals) + 1
       /\ SubSeq(heap'[t].keys, 1, Len(heap[t].keys)) = heap[t].keys
       /\ SubSeq(heap'[t].vals, 1, Len(heap[t].vals)) = heap[t].vals
       /\ \A i \in 1..Len(heap[t].keys) :
             heap[heap[t].keys[i]].bytes
                # heap'[heap'[t].keys[Len(heap'[t].keys)]].bytes

(* The caller's toml_table_setn of key on the table returned: a present    *)
(* key keeps its place and gets the new value, a new key is appended.      *)
CallerSet(key) ==
    LET I == {i \in 1..Len(heap[ret].keys) : KeyBytes(heap, ret)[i] = key}
    IN  IF I = {}
        THEN /\ KeyBytes(heap', ret) = Append(KeyBytes(heap, ret), key)
             /\ SubSeq(heap'[ret].vals, 1, Len(heap[ret].vals)) = heap[ret].vals
             /\ ValueDoc(heap', heap'[ret].vals[Len(heap'[ret].vals)])
                  = IntegerOf(7)
        ELSE /\ KeyBytes(heap', ret) = KeyBytes(heap, ret)
             /\ heap'[ret].keys = heap[ret].keys
             /\ \E i \in I :
                   /\ heap'[ret].vals
                        = [heap[ret].vals EXCEPT ![i] = heap'[ret].vals[i]]
                   /\ ValueDoc(heap', heap'[ret].vals[i]) = IntegerOf(7)

(* C9: the keys of a table are pairwise different byte strings whatever    *)
(* was set in it, by the parser or by a caller; setting a key it holds     *)
(* replaces the value in place, the length of the table and the place of   *)
(* every entry staying as they were, and setting a new key appends one     *)
(* entry at the end.                                                       *)
C9_SetSemantics ==
    [][/\ \A t \in 1..Len(heap') :
             (IsTable(heap', t) /\ heap'[t].frees = 0) => UniqueKeys(heap', t)
       /\ \A t \in 1..Len(heap) :
             (IsTable(heap, t) /\ heap'[t].frees = 0) => SetOnce(t)
       /\ (pc = "returned" /\ calls' = calls + 1)
          => \E key \in CallerKeys : CallerSet(key)]_vars

(* A caller set the first of two keys of the table returned: the entry     *)
(* holds the caller's value at the place it had.                           *)
C9_ReplacedInPlace ==
    /\ pc = "returned"
    /\ calls = 1
    /\ ~ub
    /\ buf = Str(<<"a", "=", "1", "\n", "b", "=", "1", "\n">>)
    /\ TableDoc(heap, ret) =
         <<Entry(Str(<<"a">>), IntegerOf(7)), Entry(Str(<<"b">>), IntegerOf(1))>>

(* The text is made of lines that set a key to an integer, and of nothing  *)
(* else.                                                                   *)
RECURSIVE KeyValuesOnly(_)
KeyValuesOnly(s) ==
    \/ s = <<>>
    \/ /\ Len(s) >= 4
       /\ \E l \in 2..Len(SectionLines) : SubSeq(s, 1, 4) = SectionLines[l].text
       /\ KeyValuesOnly(SubSeq(s, 5, Len(s)))

(* The header [a] is the first header of the input and the cursor is at    *)
(* the end of its line or past it: it was resolved.                        *)
HeaderResolved ==
    \E i \in 1..Len(buf) :
        /\ i + 3 <= ptr
        /\ i + 3 <= Len(buf)
        /\ SubSeq(buf, i, i + 3) = Str(<<"[", "a", "]", "\n">>)
        /\ KeyValuesOnly(SubSeq(buf, 1, i - 1))

(* The entries of table t are the same after the step. *)
Unwritten(t) ==
    /\ heap'[t].keys = heap[t].keys
    /\ heap'[t].vals = heap[t].vals

(* C10: once a header has resolved to a table, the key-value lines up to   *)
(* the next header or the end of the input are set into that table and     *)
(* into no other: none of them is written into the root table or into a    *)
(* table that was active before.                                           *)
C10_ActiveTableOnly ==
    [][(pc = "kv" /\ HeaderResolved)
       => /\ Unwritten(root)
          /\ \A t \in 1..Len(heap) :
                (IsTable(heap, t) /\ kv_from = "table" /\ t # kv_table)
                => Unwritten(t)]_vars

(* The line b=1 follows the header [a], which names the integer set by    *)
(* the first line: the parse has returned the root table, without error,   *)
(* with b in it.                                                           *)
C10_WrittenIntoRoot ==
    /\ pc = "returned"
    /\ calls = 0
    /\ ret = root
    /\ err = TOML_OK
    /\ buf = Str(<<"a", "=", "1", "\n", "[", "a", "]", "\n", "b", "=", "1", "\n">>)
    /\ TableDoc(heap, root) =
         <<Entry(Str(<<"a">>), IntegerOf(1)), Entry(Str(<<"b">>), IntegerOf(1))>>

(* The entries of table t, in the order they were inserted. *)
Entries(h, t) == [i \in 1..Len(h[t].keys) |-> <<h[t].keys[i], h[t].vals[i]>>]

(* C11: iterating a table with iter_new, has_next, get and next visits     *)
(* each of its entries once, in insertion order, and stops: has_next is    *)
(* false at once for an empty table and after as many calls of next as the *)
(* table has entries, and get returns no entry beyond the last.            *)
C11_IterVisitsAll ==
    it # NoIter =>
        /\ it.keyval \in 0..Len(heap[it.table].keys)
        /\ visited =
             IF toml_table_iter_has_next(it)
             THEN SubSeq(Entries(heap, it.table), 1, it.keyval - 1)
             ELSE Entries(heap, it.table)

(* The iteration of a table of two entries has ended. *)
C11_IterEnded ==
    /\ it # NoIter
    /\ ~toml_table_iter_has_next(it)
    /\ Len(visited) = 2
    /\ KeyBytes(heap, it.table) = <<Str(<<"a">>), Str(<<"b">>)>>

(* The table a text of key-value lines is read as: each line sets its key, *)
(* a key set again keeps its place.                                        *)
RECURSIVE KeyValueDoc(_, _)
KeyValueDoc(s, entries) ==
    IF Len(s) < 4 THEN entries
    ELSE KeyValueDoc(
           SubSeq(s, 5, Len(s)),
           SectionPut(entries,
                      CHOOSE line \in {SectionLines[l] : l \in 2..Len(SectionLines)} :
                          line.text = SubSeq(s, 1, 4)))

(* C12: toml_load_str(s) parses the whole of the NUL-terminated string s:  *)
(* the parser is given strlen(s) bytes, and the document and the error     *)
(* outcome are those of toml_load_nstr(s, strlen(s)).                      *)
C12_WholeString ==
    entry = "str" =>
        /\ len = Len(buf)
        /\ (pc = "returned" /\ calls = 0 /\ KeyValuesOnly(buf))
           => /\ ret = root
              /\ err = TOML_OK
              /\ TableDoc(heap, root) = KeyValueDoc(buf, <<>>)

(* toml_load_str has returned the table of the first two of three lines,   *)
(* without error.                                                          *)
C12_Truncated ==
    /\ entry = "str"
    /\ pc = "returned"
    /\ calls = 0
    /\ ret = root
    /\ err = TOML_OK
    /\ ~ub
    /\ buf = Str(<<"a", "=", "1", "\n", "b", "=", "1", "\n", "a", "=", "2", "\n">>)
    /\ TableDoc(heap, root) =
         <<Entry(Str(<<"a">>), IntegerOf(1)), Entry(Str(<<"b">>), IntegerOf(1))>>

(* C13: during a parse that starts with no error recorded, toml_err_set is *)
(* never called while the error code is not TOML_OK: its assertion holds   *)
(* at every call the parser makes.                                         *)
C13_ErrorSetOnce == pc # "aborted" /\ ~asserted

(* The assertion of toml_err_set has failed at the second of two empty    *)
(* headers.                                                                *)
C13_SecondError ==
    /\ pc = "aborted"
    /\ err = TOML_ERR_SYNTAX
    /\ buf = Str(<<"[", "]", "\n", "[", "]", "\n">>)

(* The header loop is at a byte no segment can start with and that is      *)
(* neither a blank nor the closing bracket: an invalid leading character,  *)
(* or the end of the line or of the input before the closing bracket.      *)
BadSegmentStart ==
    /\ pc = "table"
    /\ Byte(ptr) \notin {Ch(" "), Ch("\t"), Ch("]")}
    /\ ~IsKeyChar(Byte(ptr))

(* The header loop of an array-of-tables header is at a single ']'. *)
SingleClosingBracket ==
    /\ pc = "table"
    /\ is_array
    /\ Byte(ptr) = Ch("]")
    /\ ~(ptr + 2 <= End /\ Match(ptr, <<"]", "]">>))

(* The header was closed without a segment. *)
EmptySegmentList == pc = "table_end" /\ Len(heap[key_path].vals) = 0

(* The byte behind the blanks that follow the closing bracket. *)
BehindHeader == Byte(SkipBlanksAndCR(Here).ptr)

(* The closing bracket is followed on its line by text that is neither     *)
(* white space nor a comment.                                              *)
TrailingText ==
    /\ pc = "table_end"
    /\ Len(heap[key_path].vals) > 0
    /\ SkipBlanksAndCR(Here).ptr < End
    /\ BehindHeader \notin {Ch("\n"), Ch("#")}

(* C14: a malformed table header (a segment with an invalid leading        *)
(* character, a closing bracket missing before the end of the line or of   *)
(* the input, an empty segment list, text behind the header on its line)   *)
(* records a syntax error, toml_parse_table reports the failure to the     *)
(* driver and the parse stops.                                             *)
C14_MalformedHeader ==
    [][(BadSegmentStart \/ SingleClosingBracket \/ EmptySegmentList
        \/ TrailingText)
       => /\ pc' = "returned"
          /\ ret' = NULL
          /\ err' = TOML_ERR_SYNTAX]_vars

(* The parse of the empty header [] has returned the root table with the   *)
(* syntax error recorded.                                                  *)
C14_EmptyHeaderPassed ==
    /\ pc = "returned"
    /\ calls = 0
    /\ ret = root
    /\ err = TOML_ERR_SYNTAX
    /\ buf = Str(<<"[", "]", "\n">>)

(* C15: a header followed on its line by white space and a comment is      *)
(* accepted and resolves as the same header without them.                  *)
C15_HeaderTrailer ==
    [][(/\ pc = "table_end"
        /\ Len(heap[key_path].vals) > 0
        /\ \A i \in 1..Len(heap[key_path].vals) : Part(heap, key_path, i) # NULL
        /\ \/ ~(SkipBlanksAndCR(Here).ptr < End)
           \/ BehindHeader \in {Ch("\n"), Ch("#")})
       => /\ pc' = "walk"
          /\ err' = err
          /\ key_path' = key_path
          /\ PathNames(heap', key_path) = PathNames(heap, key_path)]_vars

(* The header [a] with a comment behind it was refused: the parse has      *)
(* returned the root table with a syntax error, the line b=1 set in the    *)
(* root and no table a.                                                    *)
C15_CommentRefused ==
    /\ pc = "returned"
    /\ calls = 0
    /\ ret = root
    /\ err = TOML_ERR_SYNTAX
    /\ buf = Str(<<"[", "a", "]", " ", "#", "\n", "b", "=", "1", "\n">>)
    /\ TableDoc(heap, root) = <<Entry(Str(<<"b">>), IntegerOf(1))>>

(* The array values of the heap that were not released. *)
ArrayValues(h) ==
    {v \in 1..Len(h) :
        h[v].kind = "value" /\ h[v].type = TOML_ARRAY /\ h[v].frees = 0}

(* The array holds table values and nothing else. *)
AllTables(h, array) ==
    \A i \in 1..Len(h[array].vals) : h[h[array].vals[i]].type = TOML_TABLE

(* C16: an array created by an array-of-tables header holds table values   *)
(* only, when it is created and after every later step of the parse.       *)
C16_OnlyTables ==
    [][\A v \in ArrayValues(heap') :
          (\/ v > Len(heap) /\ pc = "walk" /\ is_array
           \/ v \in ArrayValues(heap) /\ AllTables(heap, heap[v].pl))
          => /\ heap'[heap'[v].pl].vals # <<>>
             /\ AllTables(heap', heap'[v].pl)]_vars

(* Two [[a]] sections and a key-value line were read: the array under a    *)
(* holds two tables.                                                       *)
C16_TwoTables ==
    /\ pc = "returned"
    /\ calls = 0
    /\ buf = SectionText(<<1, 1, 4>>)
    /\ Lookup(heap, root, Str(<<"a">>)) \in ArrayValues(heap)
    /\ Len(heap[heap[Lookup(heap, root, Str(<<"a">>))].pl].vals) = 2
    /\ AllTables(heap, heap[Lookup(heap, root, Str(<<"a">>))].pl)


----------------------------------------------------------------------------
(* The value scanners. *)

(* toml_parse_value was called at the start of buf and came back. *)
ValueScanned == pc = "value_end"

(* buf is word, followed by nothing or by a byte that ends a boolean. *)
LiteralAtStart(word) ==
    /\ Len(buf) >= Len(word)
    /\ SubSeq(buf, 1, Len(word)) = Str(word)
    /\ \/ Len(buf) = Len(word)
       \/ isspace(buf[Len(word) + 1])
       \/ buf[Len(word) + 1] \in {Ch(","), Ch("]"), Ch("}")}

IsBoolean(v, b) ==
    /\ v # NULL
    /\ heap[v].type = TOML_BOOLEAN
    /\ heap[v].pl = b

BooleanLists ==
    { Str(<<"[", "t", "r", "u", "e", ",", "f", "a", "l", "s", "e", "]">>),
      Str(<<"[", "f", "a", "l", "s", "e", ",", "t", "r", "u", "e", "]">>) }

BooleanTables ==
    { Str(<<"{", "a", " ", "=", " ", "f", "a", "l", "s", "e", "}">>),
      Str(<<"{", "a", " ", "=", " ", "t", "r", "u", "e", "}">>) }

(* C17: the boolean scanner yields true for the literal true and false for *)
(* the literal false, consuming 4 resp. 5 bytes, exactly when the literal  *)
(* is followed by whitespace, a comma, a closing bracket or brace, or the  *)
(* end of the input; any other token that starts with t or f yields no     *)
(* value; so a list and an inline table of booleans yield their booleans.  *)
C17_BooleanLiterals ==
    ValueScanned =>
        /\ buf[1] \in {Ch("t"), Ch("f")} =>
              IF LiteralAtStart(<<"t", "r", "u", "e">>)
              THEN IsBoolean(scanned, 1) /\ ptr = 5
              ELSE IF LiteralAtStart(<<"f", "a", "l", "s", "e">>)
              THEN IsBoolean(scanned, 0) /\ ptr = 6
              ELSE scanned = NULL /\ ptr = 1
        /\ buf \in BooleanLists =>
              /\ scanned # NULL
              /\ heap[scanned].type = TOML_ARRAY
              /\ Len(heap[heap[scanned].pl].vals) = 2
              /\ \A i \in 1..2 :
                    heap[heap[heap[scanned].pl].vals[i]].type = TOML_BOOLEAN
        /\ buf \in BooleanTables =>
              /\ scanned # NULL
              /\ heap[scanned].type = TOML_TABLE
              /\ Len(heap[heap[scanned].pl].vals) = 1
              /\ heap[heap[heap[scanned].pl].vals[1]].type = TOML_BOOLEAN

(* false before a closing bracket is refused, and no error is recorded. *)
C17_FalseRefused ==
    /\ ValueScanned
    /\ buf = Str(<<"f", "a", "l", "s", "e", "]">>)
    /\ scanned = NULL
    /\ ptr = 1
    /\ err = TOML_OK


(* toml_parse_key_value was called on the line a=token and returned 0 to   *)
(* its caller.                                                             *)
KeyValueReturnedOK == pc = "parse" /\ kv_from = "none" /\ kv_table = NULL

(* The string v is allocated and was not freed. *)
Live(h, v) == v \in 1..Len(h) /\ h[v].frees = 0

(* C18: a scanner either yields a value or fails with one recorded error:  *)
(* when toml_parse_value returns no value an error is recorded, and        *)
(* toml_parse_key_value does not return 0 without having stored a value;   *)
(* when it returns a value no error is recorded, no assertion of           *)
(* toml_err_set failed, and a string it returns is not freed.              *)
C18_ValueOrOneError ==
    /\ pc # "aborted"
    /\ ValueScanned =>
          /\ ~asserted
          /\ scanned = NULL => err # TOML_OK
          /\ scanned # NULL =>
                /\ err = TOML_OK
                /\ heap[scanned].type = TOML_STRING =>
                      Live(heap, heap[scanned].pl)
    /\ KeyValueReturnedOK =>
          /\ err = TOML_OK
          /\ Len(heap[root].keys) = 1
          /\ Live(heap, heap[root].vals[1])

(* A token that is no boolean: no value and no error, and the key-value    *)
(* parser returned 0 with nothing stored.                                  *)
C18_NoValueNoError ==
    /\ KeyValueReturnedOK
    /\ buf = Str(<<"a", "=", "t", "r", "u", "x">>)
    /\ err = TOML_OK
    /\ heap[root].keys = <<>>

(* An unterminated string: the error is recorded and the freed string is   *)
(* returned in a value.                                                    *)
C18_FreedStringReturned ==
    /\ ValueScanned
    /\ buf = Str(<<"\"", "b">>)
    /\ err = TOML_ERR_SYNTAX
    /\ scanned # NULL
    /\ heap[scanned].type = TOML_STRING
    /\ heap[heap[scanned].pl].frees = 1


(* The bytes of buf before position i are digits, one at least. *)
DigitsBefore(i) == i > 1 /\ \A k \in 1..(i - 1) : isdigit(buf[k])

(* The positions of buf where a '-' follows digits only: it is behind the  *)
(* first character and not behind an exponent marker.                      *)
DateDashes == {i \in 1..Len(buf) : buf[i] = Ch("-") /\ DigitsBefore(i)}

(* C19: a '-' behind the first character of a numeric token, and not       *)
(* directly behind an exponent marker, makes the token a datetime: the '-' *)
(* is consumed and the value has the type TOML_DATETIME.                   *)
C19_DashMakesDatetime ==
    (ValueScanned /\ DateDashes # {}) =>
        /\ scanned # NULL
        /\ heap[scanned].type = TOML_DATETIME
        /\ \A i \in DateDashes : ptr > i
        /\ err = TOML_OK

(* The date is scanned as the integer 1979, the cursor left on the '-'. *)
C19_DateIsInteger ==
    /\ ValueScanned
    /\ buf = Str(<<"1", "9", "7", "9", "-", "0", "5", "-", "2", "7">>)
    /\ scanned # NULL
    /\ heap[scanned].type = TOML_INTEGER
    /\ heap[scanned].pl = 1979
    /\ ptr = 5
    /\ err = TOML_OK


(* The numeric token at the start of buf: its bytes up to the first that   *)
(* is none of a letter, a digit, a sign, a dot or an underscore.           *)
NumericByte(c) == isalnum(c) \/ c \in {Ch("+"), Ch("-"), Ch("."), Ch("_")}

RECURSIVE TokenEnd(_)
TokenEnd(i) ==
    IF i <= Len(buf) /\ NumericByte(buf[i]) THEN TokenEnd(i + 1) ELSE i

Underscores == {i \in 1..(TokenEnd(1) - 1) : buf[i] = Ch("_")}

(* The '_' at i stands between two alphanumeric characters of the token. *)
Separates(i) ==
    /\ i > 1
    /\ i + 1 < TokenEnd(1)
    /\ isalnum(buf[i - 1])
    /\ isalnum(buf[i + 1])

RECURSIVE Dropped(_, _)
Dropped(s, c) ==
    IF s = <<>> THEN <<>>
    ELSE IF Head(s) = c THEN Dropped(Tail(s), c)
    ELSE <<Head(s)>> \o Dropped(Tail(s), c)

DecimalToken ==
    \A i \in 1..(TokenEnd(1) - 1) : isdigit(buf[i]) \/ buf[i] = Ch("_")

(* C20: in a numeric token a '_' between two alphanumeric characters is    *)
(* accepted and dropped before the conversion; a '_' that is leading,      *)
(* trailing, next to another '_' or next to a character that is not        *)
(* alphanumeric is a syntax error.                                         *)
C20_UnderscoreSeparates ==
    (/\ ValueScanned
     /\ isdigit(buf[1]) \/ buf[1] \in {Ch("+"), Ch("-"), Ch(".")}
     /\ Underscores # {}) =>
        IF \A i \in Underscores : Separates(i)
        THEN /\ scanned # NULL
             /\ err = TOML_OK
             /\ ptr = TokenEnd(1)
             /\ DecimalToken =>
                   /\ heap[scanned].type = TOML_INTEGER
                   /\ heap[scanned].pl =
                         strtoll(Dropped(SubSeq(buf, 1, TokenEnd(1) - 1),
                                         Ch("_")), 10).n
        ELSE /\ scanned = NULL
             /\ err = TOML_ERR_SYNTAX

(* The '_' before the dot is accepted: the token is the float 1.5. *)
C20_UnderscoreBeforeDot ==
    /\ ValueScanned
    /\ buf = Str(<<"1", "_", ".", "5">>)
    /\ scanned # NULL
    /\ heap[scanned].type = TOML_FLOAT
    /\ heap[scanned].bytes = Str(<<"1", ".", "5">>)
    /\ err = TOML_OK


(* The base a prefix at the start of buf declares, 10 without a prefix. *)
PrefixBase ==
    IF Len(buf) >= 2 /\ buf[1] = Ch("0")
    THEN IF buf[2] = Ch("x") THEN 16
         ELSE IF buf[2] = Ch("o") THEN 8
         ELSE IF buf[2] = Ch("b") THEN 2
         ELSE 10
    ELSE 10

(* The token behind its prefix, the underscores dropped. *)
PrefixedDigits == Dropped(SubSeq(buf, 3, TokenEnd(1) - 1), Ch("_"))

RECURSIVE ValueIn(_, _, _)
ValueIn(s, base, n) ==
    IF s = <<>> THEN n
    ELSE ValueIn(Tail(s), base, n * base + DigitVal(Head(s)))

(* C21: a token with the prefix 0x, 0o or 0b is converted, the prefix      *)
(* stripped, as an integer in base 16, 8 or 2; with a dot, an exponent or  *)
(* a digit that the base does not have it is a syntax error, never a       *)
(* float.                                                                  *)
C21_BasePrefix ==
    (/\ ValueScanned
     /\ PrefixBase # 10
     /\ PrefixedDigits # <<>>
     /\ \A i \in Underscores : Separates(i)) =>
        IF \A i \in 1..Len(PrefixedDigits) :
              DigitVal(PrefixedDigits[i]) < PrefixBase
        THEN /\ scanned # NULL
             /\ heap[scanned].type = TOML_INTEGER
             /\ heap[scanned].pl = ValueIn(PrefixedDigits, PrefixBase, 0)
             /\ ptr = TokenEnd(1)
             /\ err = TOML_OK
        ELSE /\ scanned = NULL
             /\ err = TOML_ERR_SYNTAX

(* The hexadecimal token with a dot is the float 1.5. *)
C21_HexFloat ==
    /\ ValueScanned
    /\ buf = Str(<<"0", "x", "1", ".", "5">>)
    /\ scanned # NULL
    /\ heap[scanned].type = TOML_FLOAT
    /\ heap[scanned].bytes = Str(<<"1", ".", "5">>)
    /\ err = TOML_OK


(* toml_parse_value was called on buf itself, not on a line a=token. *)
ValueAlone == kv_table = NULL /\ kv_from = "none" /\ calls = 0 /\ ret = NULL

(* The end of the decimal token at the start of buf: digits, dots and      *)
(* exponent markers, a sign at the start, and one sign directly behind an  *)
(* exponent marker.                                                        *)
RECURSIVE DecimalEnd(_, _)
DecimalEnd(i, signed) ==
    IF i > Len(buf) THEN i
    ELSE IF isdigit(buf[i]) \/ buf[i] \in {Ch("."), Ch("e"), Ch("E")}
    THEN DecimalEnd(i + 1, signed)
    ELSE IF buf[i] \in {Ch("+"), Ch("-")}
    THEN IF i = 1 THEN DecimalEnd(i + 1, signed)
         ELSE IF buf[i - 1] \in {Ch("e"), Ch("E")} /\ ~signed
         THEN DecimalEnd(i + 1, TRUE)
         ELSE i
    ELSE i

DecimalText == SubSeq(buf, 1, DecimalEnd(1, FALSE) - 1)

(* buf starts with a decimal token that a sign, white space or the end of  *)
(* the input ends.                                                         *)
DecimalToken22 ==
    /\ buf # <<>>
    /\ isdigit(buf[1]) \/ buf[1] \in {Ch("+"), Ch("-"), Ch(".")}
    /\ \/ DecimalEnd(1, FALSE) > Len(buf)
       \/ buf[DecimalEnd(1, FALSE)] \in {Ch("+"), Ch("-"), Ch("\n"), Ch(" ")}

Count(s, c) == Cardinality({i \in 1..Len(s) : s[i] = c})

Rejected == scanned = NULL /\ err = TOML_ERR_SYNTAX /\ ~ub

(* C22: a decimal token without dot and exponent marker is an integer; the *)
(* first dot or an exponent marker makes it a float; a second dot is a     *)
(* syntax error; a sign inside the token is taken only directly behind an  *)
(* exponent marker and only once; the token is rejected with a syntax      *)
(* error when the conversion does not consume all of it.                   *)
C22_DecimalClasses ==
    (ValueAlone /\ DecimalToken22) =>
        /\ pc # "crashed"
        /\ ValueScanned =>
              IF Count(DecimalText, Ch(".")) >= 2 THEN Rejected
              ELSE IF \A i \in 1..Len(DecimalText) :
                         DecimalText[i] \notin {Ch("."), Ch("e"), Ch("E")}
              THEN IF strtoll(DecimalText, 10).end < Len(DecimalText)
                   THEN Rejected
                   ELSE /\ scanned # NULL
                        /\ heap[scanned].type = TOML_INTEGER
                        /\ heap[scanned].pl = strtoll(DecimalText, 10).n
                        /\ ptr = Len(DecimalText) + 1
                        /\ err = TOML_OK
              ELSE IF strtod_end(DecimalText) < Len(DecimalText)
                   THEN Rejected
                   ELSE /\ scanned # NULL
                        /\ heap[scanned].type = TOML_FLOAT
                        /\ heap[scanned].bytes = DecimalText
                        /\ ptr = Len(DecimalText) + 1
                        /\ err = TOML_OK

(* The float whose exponent has no digits: the rejection formats its       *)
(* message from arguments that were never passed, and the process ends.    *)
C22_RejectionCrashed ==
    /\ ValueAlone
    /\ pc = "crashed"
    /\ buf = Str(<<"1", "e">>)
    /\ ub


(* buf is a basic string that starts with one unicode escape: the number   *)
(* of digits the escape asks for, and the bytes that stand in their place. *)
UnicodeEscape ==
    /\ Len(buf) >= 3
    /\ buf[1] = Ch("\"")
    /\ buf[2] = Ch("\\")
    /\ buf[3] \in {Ch("u"), Ch("U")}

EscapeDigits == IF buf[3] = Ch("u") THEN 4 ELSE 8

EscapeText == SubSeq(buf, 4, 3 + EscapeDigits)

(* The scalar fits the 31 bits that the encoded forms can hold. *)
ScalarFits == EscapeDigits = 4 \/ DigitVal(buf[4]) < 8

FormLength(scalar) ==
    IF scalar <= 127 THEN 1
    ELSE IF scalar <= 2047 THEN 2
    ELSE IF scalar <= 65535 THEN 3
    ELSE IF scalar <= 2097151 THEN 4
    ELSE IF scalar <= 67108863 THEN 5
    ELSE 6

RECURSIVE Shifted(_, _)
Shifted(scalar, j) == IF j = 0 THEN scalar ELSE Shifted(scalar \div 64, j - 1)

LeadMark == <<0, 192, 224, 240, 248, 252>>

(* The UTF-8 form of k bytes: the lead byte holds the mark of the form and *)
(* the top bits, each byte behind it 10 and the next six bits.             *)
Encoded(scalar) ==
    [j \in 1..FormLength(scalar) |->
        IF j = 1
        THEN LeadMark[FormLength(scalar)]
             + Shifted(scalar, FormLength(scalar) - 1)
        ELSE 128 + (Shifted(scalar, FormLength(scalar) - j) % 64)]

Surrogate(scalar) ==
    \/ scalar >= 55296 /\ scalar <= 57343
    \/ scalar >= 65534 /\ scalar <= 65535

(* C23: a \u escape takes 4 hex digits and a \U escape 8; the scalar they  *)
(* spell is appended in its UTF-8 form of 1 to 6 bytes; a scalar in        *)
(* d800-dfff or fffe-ffff, a byte that is no hex digit, or the end of the  *)
(* input before the last digit fails with TOML_ERR_UNICODE, and no string  *)
(* is returned.                                                            *)
C23_UnicodeEscape ==
    (ValueScanned /\ UnicodeEscape) =>
        IF \/ Len(buf) < 3 + EscapeDigits
           \/ \E i \in 1..EscapeDigits : ~isxdigit(EscapeText[i])
           \/ ScalarFits /\ Surrogate(ValueIn(EscapeText, 16, 0))
        THEN /\ scanned = NULL
             /\ err = TOML_ERR_UNICODE
             /\ \A i \in 2..Len(heap) : heap[i].frees = 1
        ELSE (ScalarFits /\ Len(buf) = 4 + EscapeDigits) =>
                /\ scanned # NULL
                /\ heap[scanned].type = TOML_STRING
                /\ heap[heap[scanned].pl].bytes =
                      Encoded(ValueIn(EscapeText, 16, 0))
                /\ heap[heap[scanned].pl].frees = 0
                /\ ptr = Len(buf) + 1
                /\ err = TOML_OK

(* A scalar behind the basic plane, in four bytes. *)
C23_FourBytes ==
    /\ ValueScanned
    /\ buf = Escaped("U", <<"0", "0", "0", "1", "F", "6", "0", "0">>)
    /\ scanned # NULL
    /\ heap[heap[scanned].pl].bytes = <<240, 159, 152, 128>>
    /\ err = TOML_OK


(* buf is a single-line basic string without unicode escapes. *)
BasicString ==
    /\ buf # <<>>
    /\ buf[1] = Ch("\"")
    /\ ~(Len(buf) >= 3 /\ buf[2] = Ch("\"") /\ buf[3] = Ch("\""))
    /\ \A i \in 3..Len(buf) :
          buf[i] \in {Ch("u"), Ch("U")} => buf[i - 1] # Ch("\\")

EscapeByte(c) ==
    IF c = Ch("b") THEN 8
    ELSE IF c = Ch("t") THEN 9
    ELSE IF c = Ch("n") THEN 10
    ELSE IF c = Ch("f") THEN 12
    ELSE IF c = Ch("r") THEN 13
    ELSE IF c = Ch("\"") THEN 34
    ELSE IF c = Ch("\\") THEN 92
    ELSE NULL

(* The string read from position i of buf on: its bytes and the position   *)
(* behind its closing quote, or ok = FALSE when a raw newline, the end of  *)
(* the input or an escape of no meaning comes first.                       *)
RECURSIVE Decoded(_, _)
Decoded(i, bytes) ==
    IF i > Len(buf) \/ buf[i] = Ch("\n") THEN [ok |-> FALSE]
    ELSE IF buf[i] = Ch("\"") THEN [ok |-> TRUE, bytes |-> bytes, end |-> i + 1]
    ELSE IF buf[i] # Ch("\\") THEN Decoded(i + 1, Append(bytes, buf[i]))
    ELSE IF i + 1 > Len(buf) \/ EscapeByte(buf[i + 1]) = NULL
    THEN [ok |-> FALSE]
    ELSE Decoded(i + 2, Append(bytes, EscapeByte(buf[i + 1])))

(* C24: in a single-line basic string each escape of one byte appends its  *)
(* byte and consumes two; a backslash before any other byte, a raw newline *)
(* and the end of the input before the closing quote make the scanner fail *)
(* with a syntax error and return no string.                               *)
C24_BasicString ==
    (ValueAlone /\ BasicString) =>
        /\ pc # "crashed"
        /\ ValueScanned =>
              IF Decoded(2, <<>>).ok
              THEN /\ scanned # NULL
                   /\ heap[scanned].type = TOML_STRING
                   /\ heap[heap[scanned].pl].bytes = Decoded(2, <<>>).bytes
                   /\ heap[heap[scanned].pl].frees = 0
                   /\ ptr = Decoded(2, <<>>).end
                   /\ err = TOML_OK
              ELSE /\ scanned = NULL
                   /\ err = TOML_ERR_SYNTAX
                   /\ ~ub

(* An escape of no meaning: the error is recorded, the string is freed,    *)
(* and the scan goes on and returns it.                                    *)
C24_InvalidEscapeKept ==
    /\ ValueScanned
    /\ buf = Str(<<"\"", "\\", "x", "\"">>)
    /\ scanned # NULL
    /\ heap[scanned].type = TOML_STRING
    /\ heap[heap[scanned].pl].frees >= 1
    /\ err = TOML_ERR_SYNTAX
    /\ ub


(* buf is a multi-line basic string without unicode escapes. *)
MultiLineBasic ==
    /\ Len(buf) >= 3
    /\ SubSeq(buf, 1, 3) = Str(Delimiter)
    /\ \A i \in 5..Len(buf) :
          buf[i] \in {Ch("u"), Ch("U")} => buf[i - 1] # Ch("\\")

Blanks == {Ch(" "), Ch("\t"), Ch("\r")}

WhiteSpace == Blanks \cup {Ch("\n"), 11, 12}

RECURSIVE Trimmed(_, _)
Trimmed(i, white) ==
    IF i <= Len(buf) /\ buf[i] \in white THEN Trimmed(i + 1, white) ELSE i

(* The multi-line string read from position i of buf on, a backslash at    *)
(* the end of a line taking the newline and the bytes of white behind it:  *)
(* its bytes and the position behind its closing delimiter, or ok = FALSE  *)
(* when no delimiter comes or an escape has no meaning.                    *)
RECURSIVE Decoded3(_, _, _)
Decoded3(i, bytes, white) ==
    IF i + 2 > Len(buf) THEN [ok |-> FALSE]
    ELSE IF SubSeq(buf, i, i + 2) = Str(Delimiter)
    THEN [ok |-> TRUE, bytes |-> bytes, end |-> i + 3]
    ELSE IF buf[i] # Ch("\\") THEN Decoded3(i + 1, Append(bytes, buf[i]), white)
    ELSE IF buf[i + 1] = Ch("\n")
    THEN Decoded3(Trimmed(i + 2, white), bytes, white)
    ELSE IF EscapeByte(buf[i + 1]) = NULL THEN [ok |-> FALSE]
    ELSE Decoded3(i + 2, Append(bytes, EscapeByte(buf[i + 1])), white)

MultiLineStart == IF Len(buf) >= 4 /\ buf[4] = Ch("\n") THEN 5 ELSE 4

MultiLineResult(white) ==
    IF Decoded3(MultiLineStart, <<>>, white).ok
    THEN /\ scanned # NULL
         /\ heap[scanned].type = TOML_STRING
         /\ heap[heap[scanned].pl].bytes =
               Decoded3(MultiLineStart, <<>>, white).bytes
         /\ ptr = Decoded3(MultiLineStart, <<>>, white).end
         /\ err = TOML_OK
    ELSE scanned = NULL

(* C25 as stated: in a multi-line basic string one newline directly behind *)
(* the opening delimiter is no part of the value; a backslash directly     *)
(* before a newline takes the newline and the spaces, tabs and carriage    *)
(* returns behind it and appends nothing; the string ends at the first     *)
(* unescaped delimiter.                                                    *)
C25_TrimsBlanks ==
    (ValueScanned /\ MultiLineBasic) => MultiLineResult(Blanks)

(* C25, amended: the backslash before a newline takes the newline and all  *)
(* white space behind it, further newlines included, up to the next byte   *)
(* that is no white space.                                                 *)
C25_TrimsWhiteSpace ==
    (ValueScanned /\ MultiLineBasic) => MultiLineResult(WhiteSpace)

(* The empty line behind the continued line is dropped too. *)
C25_EmptyLineTrimmed ==
    /\ ValueScanned
    /\ buf = Str(Delimiter \o <<"a", "\\", "\n", " ", "\n", " ", "b">>
                 \o Delimiter)
    /\ scanned # NULL
    /\ heap[heap[scanned].pl].bytes = Str(<<"a", "b">>)
    /\ err = TOML_OK


(* toml_parse_key_value was called on the line a=token and returned. *)
KeyValueDone == pc \in {"parse", "returned"} /\ kv_from = "none"

IsTableOf(v, doc) ==
    /\ v # NULL
    /\ heap[v].type = TOML_TABLE
    /\ TableDoc(heap, heap[v].pl) = doc

InlineWithNewline ==
    { Str(<<"{", "\n", "}">>), Str(<<"{", "a", "=", "1", "\n", "}">>),
      Str(<<"{", "a", "=", "1", ",", "\n", "b", "=", "2", "}">>) }

(* C26: an inline table is parsed into a new table, a key set twice        *)
(* keeping its last value; the empty inline table is valid, so that the    *)
(* line a = {} parses; the closing brace is consumed; a raw newline before *)
(* the closing brace is a syntax error.                                    *)
C26_InlineTable ==
    /\ (ValueAlone /\ ValueScanned) =>
          /\ buf \in {Str(<<"{", "}">>), Str(<<"{", "}", "\n">>)} =>
                IsTableOf(scanned, <<>>) /\ ptr = 3 /\ err = TOML_OK
          /\ buf = Str(<<"{", " ", "}">>) =>
                IsTableOf(scanned, <<>>) /\ ptr = 4 /\ err = TOML_OK
          /\ buf = Str(<<"{", "a", "=", "1", ",", "a", "=", "2", "}">>) =>
                /\ IsTableOf(scanned, <<Entry(Str(<<"a">>), <<"integer", 2>>)>>)
                /\ ptr = Len(buf) + 1
                /\ err = TOML_OK
          /\ buf = Str(<<"{", "a", "=", "1", ",", "b", "=", "2", "}">>) =>
                /\ IsTableOf(scanned, <<Entry(Str(<<"a">>), <<"integer", 1>>),
                                        Entry(Str(<<"b">>), <<"integer", 2>>)>>)
                /\ ptr = Len(buf) + 1
                /\ err = TOML_OK
          /\ buf \in InlineWithNewline =>
                scanned = NULL /\ err = TOML_ERR_SYNTAX
    /\ (KeyValueDone /\ buf = Str(<<"a", "=", "{", "}", "\n">>)) =>
          /\ pc = "parse"
          /\ err = TOML_OK
          /\ TableDoc(heap, root) = <<Entry(Str(<<"a">>), <<"table", <<>>>>)>>

(* The empty inline table: its closing brace is left in the input, and the *)
(* line that holds it is refused.                                          *)
C26_BraceLeft ==
    /\ KeyValueDone
    /\ buf = Str(<<"a", "=", "{", "}", "\n">>)
    /\ pc = "returned"
    /\ ret = NULL
    /\ err = TOML_ERR_SYNTAX


(* The strings that are allocated and not freed. *)
LiveStrings(h) ==
    {i \in 1..Len(h) : h[i].kind = "string" /\ h[i].frees = 0}

IsPowerOfTwo(n) == n >= 1 /\ Pow2From(1, n) = n

(* C27: every string has a buffer that holds its bytes and the NUL behind  *)
(* them: len + 1 <= capacity, and the capacity is a power of two of at     *)
(* least 8; so have the empty strings that the scanners make of "" and ''. *)
C27_StringBuffer ==
    \A s \in LiveStrings(heap) :
        /\ heap[s].cap >= MinCapacity
        /\ IsPowerOfTwo(heap[s].cap)
        /\ Len(heap[s].bytes) + 1 <= heap[s].cap

(* The empty string: no buffer was ever allocated for it, its capacity is  *)
(* 0 and its str the null pointer.                                         *)
C27_EmptyStringNoBuffer ==
    /\ ValueScanned
    /\ buf = Str(<<"\"", "\"">>)
    /\ scanned # NULL
    /\ heap[scanned].type = TOML_STRING
    /\ heap[heap[scanned].pl].bytes = <<>>
    /\ heap[heap[scanned].pl].cap = 0
    /\ heap[heap[scanned].pl].frees = 0
    /\ err = TOML_OK


----------------------------------------------------------------------------
(* Headers over values that are no tables. *)

(* Every segment of the header being resolved was scanned. *)
PathScanned ==
    /\ key_path # NULL
    /\ heap[key_path].vals # <<>>
    /\ \A i \in 1..Len(heap[key_path].vals) :
          IsObj(heap, Part(heap, key_path, i), "string")

(* The segments the walk descends through: all of them, or all but the     *)
(* last, which names the array of an array-of-tables header.               *)
Descended == IF is_array THEN Len(Names) - 1 ELSE Len(Names)

(* C28: a header descends into tables only: where a segment names a value  *)
(* that is neither a table nor an array whose last element is a table, the *)
(* header is rejected; it resolves to no table, and the key-value lines    *)
(* behind it are not written into the table that holds that value.         *)
C28_DescendsIntoTables ==
    [][(/\ pc = "walk"
        /\ PathScanned
        /\ ~Walkable(heap, root, Names, 1, Descended, TRUE))
       => /\ pc' = "returned"
          /\ ret' = NULL
          /\ err' = TOML_ERR_SYNTAX
          /\ \A t \in 1..Len(heap) : IsTable(heap, t) => Unwritten(t)]_vars

(* The header [a] where a is an integer of the root table: it resolved to  *)
(* the root table.                                                         *)
C28_ScalarWalkedOver ==
    /\ pc = "kv"
    /\ kv_from = "table"
    /\ ~is_array
    /\ Names = <<Str(<<"a">>)>>
    /\ Lookup(heap, root, Str(<<"a">>)) # NULL
    /\ heap[Lookup(heap, root, Str(<<"a">>))].type = TOML_INTEGER
    /\ kv_table = root
    /\ err = TOML_OK


----------------------------------------------------------------------------
(* Arrays and inline tables that are not closed or not separated. *)

(* The input ends before the ']' or '}' that closes the value. *)
Unclosed ==
    { Str(<<"[">>), Str(<<"[", "1", ",", "2">>), Str(<<"[", "1", ",">>),
      Str(<<"[", "[", "1", "]", ",", "[", "2", "]">>),
      Str(<<"[", "[", "1", "]">>),
      Str(<<"{">>), Str(<<"{", "a", "=", "1">>), Str(<<"{", "a", "=", "1", ",">>),
      Str(<<"{", "a", "=", "{", "b", "=", "1", "}">>),
      Str(<<"{", "a", "=", "[", "1", "}">>),
      Str(<<"[", "{", "a", "=", "1", "]">>) }

(* Two elements or two pairs with white space only between them. *)
Unseparated ==
    { Str(<<"[", "1", " ", "2", "]">>), Str(<<"[", "1", "\n", "2", "]">>),
      Str(<<"[", "[", "1", "]", " ", "[", "2", "]", "]">>),
      Str(<<"[", "{", "a", "=", "1", "}", " ", "{", "a", "=", "2", "}", "]">>),
      Str(<<"[", "'", "a", "'", " ", "'", "b", "'", "]">>),
      Str(<<"{", "a", "=", "1", " ", "b", "=", "2", "}">>) }

(* C29: an array or an inline table that the end of the input leaves open, *)
(* and elements or pairs that no comma separates, are rejected with a      *)
(* syntax error: no value is returned, and the line that holds them is     *)
(* not accepted.                                                           *)
C29_ClosedAndSeparated ==
    /\ (ValueAlone /\ ValueScanned /\ buf \in Unclosed \cup Unseparated) =>
          scanned = NULL /\ err = TOML_ERR_SYNTAX
    /\ (/\ KeyValueDone
        /\ Len(buf) > 2
        /\ SubSeq(buf, 3, Len(buf)) \in Unclosed \cup Unseparated) =>
          pc = "returned" /\ ret = NULL /\ err = TOML_ERR_SYNTAX

(* The array that the input ends in: its two elements are returned, with   *)
(* no error.                                                               *)
C29_OpenArrayAccepted ==
    /\ ValueScanned
    /\ buf = Str(<<"[", "1", ",", "2">>)
    /\ scanned # NULL
    /\ ValueDoc(heap, scanned) = <<"array", <<<<"integer", 1>>, <<"integer", 2>>>>>>
    /\ err = TOML_OK

----------------------------------------------------------------------------
(* Release of everything a parse allocated. *)

(* The parse gave the caller a table, the caller made no call on it but    *)
(* toml_table_free, and that call returned.                                *)
ParsedAndFreed == pc = "freed" /\ calls = 0 /\ err = TOML_OK

Allocated == 1..Len(heap)

(* C30: after a successful parse followed by toml_table_free on the root   *)
(* it returned, every string, value, table and array the parse allocated   *)
(* has been released exactly once: a replaced value and a redundant key    *)
(* string, and the key-path segments of every header, included.            *)
C30_ReleasedOnce ==
    ParsedAndFreed => \A p \in Allocated : heap[p].frees = 1

(* The key a is set a second time: the value it had and the second key     *)
(* string were never released.                                             *)
C30_ReplacedLeaked ==
    /\ ParsedAndFreed
    /\ buf = Str(<<"a", "=", "1", "\n", "a", "=", "2", "\n">>)
    /\ \E k, v \in Allocated :
          /\ heap[k].kind = "string" /\ heap[k].frees = 0
          /\ heap[v].kind = "value" /\ heap[v].frees = 0
             /\ heap[v].type = TOML_INTEGER /\ heap[v].pl = 1

====
